---- MODULE Spec2Model ----
(***************************************************************************)
(* Verification model of the jcp conversational-model gateway:             *)
(*   - the per-topic meeting registry of app.go (SpecMeeting),             *)
(*   - the streamed and non-streamed Generate calls of the Anthropic and   *)
(*     OpenAI-Responses adapters (SpecStream),                             *)
(*   - the request conversion toAnthropicMessages (SpecConvert),           *)
(*   - the MCP tool-name prefixing (SpecTools),                            *)
(*   - one round of a meeting: dispatch, agent turns, retry (SpecRound),   *)
(*   - the toolsets the MCP manager hands out (SpecManager),               *)
(*   - watchlist removal next to a running meeting (SpecWatchlist).        *)
(* Every specification moves its own group of variables and leaves the     *)
(* other groups at their initial values.                                   *)
(***************************************************************************)
EXTENDS Integers, Sequences, FiniteSets, TLC

VARIABLES
    \* ---- app.go: meeting registry ----
    meetingCancels,   \* App.meetingCancels: topic -> meeting whose cancel func is registered (None: no entry)
    pc,               \* position of every SendMeetingMessage call
    topicOf,          \* req.StockCode of every call
    ctxDone,          \* meetingCtx of the call is cancelled (its token is triggered)
    inflight,         \* the call is suspended in a provider call
    providerCalls,    \* number of provider calls the call has issued
    transcript,       \* sessionService messages of every topic, in append order
    runningAtCall,    \* history: the meetings of the topic that were Running when the call entered
    nextMeeting       \* number of SendMeetingMessage calls made so far

meetVars == <<meetingCancels, pc, topicOf, ctxDone, inflight, providerCalls,
              transcript, runningAtCall, nextMeeting>>

VARIABLES
    \* ---- internal/adk/anthropic/model.go, openai Responses model: one Generate call ----
    adapter,          \* "anthropic" | "responses"
    streaming,        \* the stream argument of GenerateContent
    gpc,              \* position of the call: "off", "request", "body", "reading", "done"
    yielded,          \* the items handed to the yield callback, in order
    blocks,           \* processStream: blocks map[int]*blockState
    stopReason,       \* processStream: stopReason
    usage,            \* processStream: usage (<<>> is nil)
    textContent,      \* processResponsesStream: textContent
    thoughtContent,   \* processResponsesStream: thoughtContent
    toolCallsMap,     \* processResponsesStream: toolCallsMap
    toolCallOrder,    \* processResponsesStream: toolCallOrder
    thinkInside,      \* thinkTagStreamParser: inside a think tag
    thinkPending,     \* thinkTagStreamParser: buffered text of a possible tag
    nEvents,          \* number of stream events read so far
    httpStatus,       \* history: the status code of the response (0: none)
    errorEventAt,     \* history: number of items yielded when an explicit error event arrived (-1: none)
    cancelAt,         \* history: number of items yielded when cancellation was observed (-1: none)
    blockArrival,     \* history: the content-block indices in the order of their first content_block_start
    firstSeen,        \* history: the content blocks of a Responses stream in the order they were first seen
    usageSeen,        \* history: input tokens of the last message_start, output tokens of the last message_delta that carried a usage (-1: none)
    deltaSeen,        \* history: the text and thinking deltas that were addressed to a started block, in arrival order
    stopAt            \* number of items yielded when the yield callback returned false (-1: it never did)

streamVars == <<adapter, streaming, gpc, yielded, blocks, stopReason, usage,
                textContent, thoughtContent, toolCallsMap, toolCallOrder,
                thinkInside, thinkPending, nEvents, httpStatus, errorEventAt, cancelAt,
                blockArrival, firstSeen, usageSeen, deltaSeen, stopAt>>

VARIABLES
    \* ---- anthropic request conversion: toAnthropicMessages ----
    contents,         \* the []*genai.Content argument
    ci,               \* number of turns the loop has consumed (-1: no conversion)
    msgs,             \* the message list built so far
    sysInstr,         \* req.Config.SystemInstruction (<<>> is nil)
    sysDone,          \* toAnthropicRequest has passed the system instruction
    arSystem          \* MessagesRequest.System

convVars == <<contents, ci, msgs, sysInstr, sysDone, arSystem>>

VARIABLES
    \* ---- internal/adk/mcp: manager and prefixed tools ----
    mcpConfigs,       \* Manager.configs: server id -> config
    wrappedTools,     \* the prefixedTool values handed out by prefixedToolset.Tools
    reqTools,         \* model.LLMRequest.Tools: name -> tool
    reqDecls,         \* the FunctionDeclarations of req.Config.Tools, in order
    lastRun           \* the inner tool the last function call was dispatched to (<<>>: none)

toolVars == <<mcpConfigs, wrappedTools, reqTools, reqDecls, lastRun>>

VARIABLES
    \* ---- app.go and the meeting orchestrator: one round of one SendMeetingMessage call ----
    rpc,              \* position of the call: "idle", "start", "aborted", "direct", "smart", "done"
    appConfig,        \* configService.GetConfig(): [AIConfigs, DefaultAIID]
    strategyAgents,   \* the agents of the active strategy, in order
    mentionIds,       \* req.MentionIds
    roundAgents,      \* the agent configurations handed to the orchestrator
    outcomes,         \* history: per agent slot, the outcomes of its provider calls (TRUE: success)
    responses,        \* the orchestrator's []ChatResponse, in completion order
    session,          \* sessionService messages of the topic, in append order
    emitted,          \* the "meeting:message:<topic>" events emitted, in order
    returned,         \* the value SendMeetingMessage returns to the caller
    roundTopic,       \* req.StockCode of the call
    journal           \* history: the AddMessage and EventsEmit calls of the round, in call order

roundVars == <<rpc, appConfig, strategyAgents, mentionIds, roundAgents, outcomes,
               responses, session, emitted, returned, roundTopic, journal>>

VARIABLES
    \* ---- internal/adk/mcp/manager.go: toolsets handed out by the Manager ----
    created,          \* number of toolsets createToolset has constructed so far
    handedOut,        \* history: instance and server of the toolsets returned before the last call
    lastResult,       \* the toolsets returned by the last Manager call or agent build, in order
    lastCall,         \* history: the last call, its arguments and the loaded ids (<<>>: none)
    agent             \* the agent built last by the expert builder (<<>>: none)

mgrVars == <<created, handedOut, lastResult, lastCall, agent>>

VARIABLES
    \* ---- app.go: watchlist, transcript and memory of every topic ----
    watchlist,        \* the topics on the watchlist
    wlMeeting,        \* per topic: "idle" or "running" (a SendMeetingMessage call is in progress)
    wlTranscript,     \* per topic: the sessionService messages, in append order
    wlMemory,         \* per topic: number of rounds recorded in the topic's memory
    removed,          \* history: RemoveFromWatchlist returned success and no query came since
    wlReturn          \* the value the last watchlist call returned

wlVars == <<watchlist, wlMeeting, wlTranscript, wlMemory, removed, wlReturn>>

VARIABLES
    \* ---- ModelFactory.DetectSystemRoleSupport: one probe ----
    ppc,              \* position of the call: "idle", "start", "replied", "done"
    probeConfig,      \* the *models.AIConfig argument: [Provider, UseResponses]
    probeFault,       \* history: what went wrong on the wire ("none" if nothing)
    probeSent,        \* history: the status and body the backend sent (<<>>: nothing)
    probeStatus,      \* doProbeRequest: the status code returned
    probeBody,        \* doProbeRequest: the respBody returned
    probeResult       \* the value DetectSystemRoleSupport returned (<<>>: none yet)

probeVars == <<ppc, probeConfig, probeFault, probeSent, probeStatus, probeBody, probeResult>>

VARIABLES
    \* ---- app.go NewApp and the memory manager: the memory of one topic ----
    memConfig,        \* configService.GetConfig().Memory at start-up
    memManager,       \* the manager's memory.Config (<<>>: no manager, memory disabled)
    keyFacts,         \* TopicMemory.KeyFacts, oldest first
    recentRounds,     \* TopicMemory.RecentRounds: the verbatim window, oldest first
    summaryOf,        \* the rounds merged into TopicMemory.Summary, in merge order
    nRounds,          \* number of AppendRound calls made
    factsAppended,    \* history: number of key facts appended so far
    summarizeCalls    \* history: the summarization calls: [at, covering, ok]

memVars == <<memConfig, memManager, keyFacts, recentRounds, summaryOf, nRounds,
             factsAppended, summarizeCalls>>

VARIABLES
    \* ---- model factory and Anthropic model: the base URL ----
    upc,              \* position of createAnthropicModel: "idle", "start", "factory", "done"
    urlInput,         \* config.BaseURL
    factoryURL,       \* createAnthropicModel: baseURL, the result of normalizeAnthropicBaseURL
    modelURL          \* AnthropicModel.baseURL, the result of normalizeBaseURL

urlVars == <<upc, urlInput, factoryURL, modelURL>>

VARIABLES
    \* ---- the well-formed event stream of one Anthropic message ----
    replayMsg         \* <<>> or <<m>>: the message whose event stream is decoded

replayVars == <<replayMsg>>

VARIABLES
    \* ---- internal/services/strategy_service.go: the strategy store ----
    store,            \* StrategyService.store: [ActiveID, Strategies]
    lastMutation      \* history: <<>> or the last mutation: [op, arg, err] (err: it returned an error)

strategyVars == <<store, lastMutation>>

\* Runtime state derived from the application configuration (app.go)
VARIABLES
    savedConfig,     \* the models.AppConfig held by the configuration service
    managerConfigs,  \* Manager.configs: the ids of the loaded servers
    memoryAI,        \* the meeting service's memory model binding: <<>> (default) or <<id>>
    moderatorAI,     \* the meeting service's moderator model binding: <<>> (default) or <<id>>
    lastAppCall,        \* the App call that returned last and its result
    resolved         \* <<>> or the last getAIConfigByID call: <<[id, result]>>

cfgVars == <<savedConfig, managerConfigs, memoryAI, moderatorAI, lastAppCall, resolved>>

\* The settings dialog's debounced save (SettingsDialog)
VARIABLES
    pendingUpdates,  \* pendingUpdatesRef.current: the changes waiting to be saved
    saveTimer,       \* saveTimerRef.current: TRUE while a timeout is set
    doSaves,         \* the doSave invocations started: position, captured updates, fetched config
    backendConfig,   \* the changes held by the configuration the backend stores
    handed,          \* the changes handed to saveConfig so far
    included,        \* the changes included in a successful updateConfig call
    rpcFailed        \* TRUE once a getConfig or updateConfig call was rejected

saveVars == <<pendingUpdates, saveTimer, doSaves, backendConfig, handed, included, rpcFailed>>

vars == <<meetVars, streamVars, convVars, toolVars, roundVars, mgrVars, wlVars, probeVars, memVars, urlVars, replayVars, strategyVars, cfgVars, saveVars>>

notMeet == <<streamVars, convVars, toolVars, roundVars, mgrVars, wlVars, probeVars, memVars, urlVars, replayVars, strategyVars, cfgVars, saveVars>>
notStream == <<meetVars, convVars, toolVars, roundVars, mgrVars, wlVars, probeVars, memVars, urlVars, replayVars, strategyVars, cfgVars, saveVars>>
notConv == <<meetVars, streamVars, toolVars, roundVars, mgrVars, wlVars, probeVars, memVars, urlVars, replayVars, strategyVars, cfgVars, saveVars>>
notTools == <<meetVars, streamVars, convVars, roundVars, mgrVars, wlVars, probeVars, memVars, urlVars, replayVars, strategyVars, cfgVars, saveVars>>
notRound == <<meetVars, streamVars, convVars, toolVars, mgrVars, wlVars, probeVars, memVars, urlVars, replayVars, strategyVars, cfgVars, saveVars>>
notMgr == <<meetVars, streamVars, convVars, toolVars, roundVars, wlVars, probeVars, memVars, urlVars, replayVars, strategyVars, cfgVars, saveVars>>
notWl == <<meetVars, streamVars, convVars, toolVars, roundVars, mgrVars, probeVars, memVars, urlVars, replayVars, strategyVars, cfgVars, saveVars>>
notProbe == <<meetVars, streamVars, convVars, toolVars, roundVars, mgrVars, wlVars, memVars, urlVars, replayVars, strategyVars, cfgVars, saveVars>>
notMem == <<meetVars, streamVars, convVars, toolVars, roundVars, mgrVars, wlVars, probeVars, urlVars, replayVars, strategyVars, cfgVars, saveVars>>
notURL == <<meetVars, streamVars, convVars, toolVars, roundVars, mgrVars, wlVars, probeVars, memVars, replayVars, strategyVars, cfgVars, saveVars>>
notReplay == <<meetVars, streamVars, convVars, toolVars, roundVars, mgrVars, wlVars, probeVars, memVars, urlVars, strategyVars, cfgVars, saveVars>>
notStrategy == <<meetVars, streamVars, convVars, toolVars, roundVars, mgrVars, wlVars, probeVars, memVars, urlVars, replayVars, cfgVars, saveVars>>
notCfg == <<meetVars, streamVars, convVars, toolVars, roundVars, mgrVars, wlVars, probeVars, memVars, urlVars, replayVars, strategyVars, saveVars>>
notSave == <<meetVars, streamVars, convVars, toolVars, roundVars, mgrVars, wlVars, probeVars, memVars, urlVars, replayVars, strategyVars, cfgVars>>

(***************************************************************************)
(* Bounds                                                                  *)
(***************************************************************************)
MaxMeetings == 3      \* SendMeetingMessage calls in one behaviour
MaxTurns == 1         \* provider calls (agent turns) of one meeting

None == 0
Topics == {"AAA", "BBB"}
Meetings == 1..MaxMeetings

(***************************************************************************)
(* app.go: SendMeetingMessage / CancelMeeting                              *)
(***************************************************************************)

\* A meeting is Running: its context exists, the call has not returned, and
\* its cancellation token is not triggered.
Running(m) == pc[m] \in {"registered", "running"} /\ ~ctxDone[m]

\* cancelMeetingInternal: one critical section of meetingCancelsMu.
cancelMeetingInternal(stockCode) ==
    /\ ctxDone' = IF meetingCancels[stockCode] # None
                  THEN [ctxDone EXCEPT ![meetingCancels[stockCode]] = TRUE]
                  ELSE ctxDone
    /\ meetingCancels' = [meetingCancels EXCEPT ![stockCode] = None]

\* CancelMeeting(stockCode), called by the front end.
CancelMeeting(stockCode) ==
    /\ cancelMeetingInternal(stockCode)
    /\ UNCHANGED <<pc, topicOf, inflight, providerCalls, transcript, runningAtCall, nextMeeting>>
    /\ UNCHANGED notMeet

\* SendMeetingMessage, entry: the session exists and the previous meeting of
\* the topic, if one is registered, is cancelled.
SendMeetingMessage_Enter(stockCode) ==
    /\ nextMeeting < MaxMeetings
    /\ LET m == nextMeeting + 1 IN
        /\ nextMeeting' = m
        /\ topicOf' = [topicOf EXCEPT ![m] = stockCode]
        /\ runningAtCall' = [runningAtCall EXCEPT ![m] =
                {n \in Meetings : topicOf[n] = stockCode /\ Running(n)}]
        /\ pc' = [pc EXCEPT ![m] = "entered"]
    /\ cancelMeetingInternal(stockCode)
    /\ UNCHANGED <<inflight, providerCalls, transcript>>
    /\ UNCHANGED notMeet

\* SendMeetingMessage: context.WithCancel, then the registration of the cancel
\* function in a second critical section.
SendMeetingMessage_Register(m) ==
    /\ pc[m] = "entered"
    /\ meetingCancels' = [meetingCancels EXCEPT ![topicOf[m]] = m]
    /\ pc' = [pc EXCEPT ![m] = "registered"]
    /\ UNCHANGED <<topicOf, ctxDone, inflight, providerCalls, transcript, runningAtCall, nextMeeting>>
    /\ UNCHANGED notMeet

\* sessionService.AddMessage (append to the topic's message list).
AddMessage(stockCode, msg) == [transcript EXCEPT ![stockCode] = Append(@, msg)]

\* SendMeetingMessage: the user message is saved, then the meeting is run.
SendMeetingMessage_SaveUserMsg(m) ==
    /\ pc[m] = "registered"
    /\ transcript' = AddMessage(topicOf[m], [writer |-> m, AgentID |-> "user"])
    /\ pc' = [pc EXCEPT ![m] = "running"]
    /\ UNCHANGED <<meetingCancels, topicOf, ctxDone, inflight, providerCalls, runningAtCall, nextMeeting>>
    /\ UNCHANGED notMeet

\* The meeting service issues a provider call for an agent turn; it does not
\* start a turn once the context is cancelled.
ProviderCall(m) ==
    /\ pc[m] = "running"
    /\ ~inflight[m]
    /\ ~ctxDone[m]
    /\ providerCalls[m] < MaxTurns
    /\ inflight' = [inflight EXCEPT ![m] = TRUE]
    /\ providerCalls' = [providerCalls EXCEPT ![m] = @ + 1]
    /\ runningAtCall' = [runningAtCall EXCEPT ![m] = {}]
    /\ UNCHANGED <<meetingCancels, pc, topicOf, ctxDone, transcript, nextMeeting>>
    /\ UNCHANGED notMeet

\* runSmartMeeting.respCallback: a completed turn is appended to the
\* transcript; a turn interrupted by cancellation is dropped.
respCallback(m) ==
    /\ pc[m] = "running"
    /\ inflight[m]
    /\ inflight' = [inflight EXCEPT ![m] = FALSE]
    /\ transcript' = IF ctxDone[m] THEN transcript
                     ELSE AddMessage(topicOf[m], [writer |-> m, AgentID |-> "agent"])
    /\ UNCHANGED <<meetingCancels, pc, topicOf, ctxDone, providerCalls, runningAtCall, nextMeeting>>
    /\ UNCHANGED notMeet

\* SendMeetingMessage returns: the deferred clean-up deletes the topic's
\* registry entry.
SendMeetingMessage_Return(m) ==
    /\ pc[m] = "running"
    /\ ~inflight[m]
    /\ meetingCancels' = [meetingCancels EXCEPT ![topicOf[m]] = None]
    /\ pc' = [pc EXCEPT ![m] = "returned"]
    /\ runningAtCall' = [runningAtCall EXCEPT ![m] = {}]
    /\ UNCHANGED <<topicOf, ctxDone, inflight, providerCalls, transcript, nextMeeting>>
    /\ UNCHANGED notMeet

MeetingIdle ==
    /\ meetingCancels = [t \in Topics |-> None]
    /\ pc = [m \in Meetings |-> "idle"]
    /\ topicOf = [m \in Meetings |-> ""]
    /\ ctxDone = [m \in Meetings |-> FALSE]
    /\ inflight = [m \in Meetings |-> FALSE]
    /\ providerCalls = [m \in Meetings |-> 0]
    /\ transcript = [t \in Topics |-> <<>>]
    /\ runningAtCall = [m \in Meetings |-> {}]
    /\ nextMeeting = 0

MeetingStep ==
    \/ \E t \in Topics : SendMeetingMessage_Enter(t)
    \/ \E m \in Meetings : SendMeetingMessage_Register(m)
    \/ \E m \in Meetings : SendMeetingMessage_SaveUserMsg(m)
    \/ \E m \in Meetings : ProviderCall(m)
    \/ \E m \in Meetings : respCallback(m)
    \/ \E m \in Meetings : SendMeetingMessage_Return(m)
    \/ \E t \in Topics : CancelMeeting(t)

(***************************************************************************)
(* Model adapters: one GenerateContent call                                *)
(* internal/adk/anthropic/model.go and the OpenAI Responses model          *)
(***************************************************************************)
MaxEvents == 3        \* stream events read in one call
MaxBlocks == 2        \* content-block indices / output items of one response

Adapters == {"anthropic", "responses"}
Indices == 0..(MaxBlocks - 1)
StatusOK == 200
Statuses == {200, 201, 304, 404, 500}
DeltaTexts == {"a", "b"}
JSONFragments == {"{\"k\":", "1}"}
BlockTypes == {"text", "thinking", "tool_use"}
StopReasons == {"end_turn", "max_tokens", "tool_use"}

\* genai.Part; a nil FunctionCall is <<>>.
TextPart(text, thought) == [Text |-> text, Thought |-> thought, FunctionCall |-> <<>>]
CallPart(id, name, args) ==
    [Text |-> "", Thought |-> FALSE,
     FunctionCall |-> <<[ID |-> id, Name |-> name, Args |-> args]>>]

\* model.LLMResponse handed to yield; `order` records, for a terminal
\* aggregate of a stream decoder, the content block every part came from
\* (Anthropic: the block index; Responses: the block's tag).
PartialItem(part) ==
    [kind |-> "partial", Partial |-> TRUE, TurnComplete |-> FALSE,
     parts |-> <<part>>, order |-> <<>>, FinishReason |-> "", UsageMetadata |-> <<>>]
FinalItem(parts, order, finish, u) ==
    [kind |-> "final", Partial |-> FALSE, TurnComplete |-> TRUE,
     parts |-> parts, order |-> order, FinishReason |-> finish, UsageMetadata |-> u]
ErrorItem ==
    [kind |-> "error", Partial |-> FALSE, TurnComplete |-> FALSE,
     parts |-> <<>>, order |-> <<>>, FinishReason |-> "", UsageMetadata |-> <<>>]

\* json.Unmarshal of accumulated tool arguments into a map: the only
\* well-formed document over JSONFragments is {"k":1}; a failure leaves the
\* empty map.
ParseArgs(s) == IF s = "{\"k\":1}" THEN "map[k:1]" ELSE "map[]"

\* convertUsage
convertUsage(u) ==
    IF u = <<>> THEN <<>>
    ELSE <<[PromptTokenCount |-> u[1].InputTokens,
            CandidatesTokenCount |-> u[1].OutputTokens,
            TotalTokenCount |-> u[1].InputTokens + u[1].OutputTokens]>>

\* convertStopReason
convertStopReason(reason) ==
    CASE reason \in {"end_turn", "stop_sequence"} -> "STOP"
      [] reason = "max_tokens" -> "MAX_TOKENS"
      [] reason = "tool_use" -> "STOP"
      [] OTHER -> "FINISH_REASON_UNSPECIFIED"

\* The status check of the adapter: Anthropic accepts 200 only, the
\* Responses adapter everything from 200 to 399.
StatusIsError(a, s) ==
    IF a = "anthropic" THEN s # StatusOK ELSE (s < 200 \/ s >= 400)

\* sort.Ints (insertion sort)
RECURSIVE InsertSorted(_, _)
InsertSorted(x, s) ==
    IF s = <<>> THEN <<x>>
    ELSE IF x <= Head(s) THEN <<x>> \o s
    ELSE <<Head(s)>> \o InsertSorted(x, Tail(s))

\* A variant that leaves the keys in map iteration order.
SortInts_Unsorted(s) == s

RECURSIVE SortInts(_)
SortInts(s) == IF s = <<>> THEN <<>> ELSE InsertSorted(Head(s), SortInts(Tail(s)))

\* The orders in which `for idx := range blocks` may enumerate the keys.
MapIterationOrders(S) ==
    {f \in [1..Cardinality(S) -> S] : \A i, j \in 1..Cardinality(S) : i # j => f[i] # f[j]}

\* emitFinalResponse: the part a block contributes (none for an empty text or
\* thinking block).  The variant keeps the part of an empty text block.
BlockParts_KeepEmpty(bs) ==
    CASE bs.blockType = "thinking" ->
            IF bs.thinking # "" THEN <<TextPart(bs.thinking, TRUE)>> ELSE <<>>
      [] bs.blockType = "text" -> <<TextPart(bs.text, FALSE)>>
      [] bs.blockType = "tool_use" ->
            <<CallPart(bs.toolID, bs.toolName, ParseArgs(bs.toolArgs))>>
      [] OTHER -> <<>>
BlockParts(bs) ==
    CASE bs.blockType = "thinking" ->
            IF bs.thinking # "" THEN <<TextPart(bs.thinking, TRUE)>> ELSE <<>>
      [] bs.blockType = "text" ->
            IF bs.text # "" THEN <<TextPart(bs.text, FALSE)>> ELSE <<>>
      [] bs.blockType = "tool_use" ->
            <<CallPart(bs.toolID, bs.toolName, ParseArgs(bs.toolArgs))>>
      [] OTHER -> <<>>

RECURSIVE AggregateParts(_, _)
AggregateParts(indices, bl) ==
    IF indices = <<>> THEN <<>>
    ELSE BlockParts(bl[Head(indices)]) \o AggregateParts(Tail(indices), bl)

RECURSIVE AggregateOrder(_, _)
AggregateOrder(indices, bl) ==
    IF indices = <<>> THEN <<>>
    ELSE (IF BlockParts(bl[Head(indices)]) = <<>> THEN <<>> ELSE <<Head(indices)>>)
         \o AggregateOrder(Tail(indices), bl)

\* emitFinalResponse: the keys are collected in map iteration order, sorted,
\* and the blocks aggregated in that order.
emitFinalResponse(iteration, bl, sr, u) ==
    LET indices == SortInts(iteration) IN
    FinalItem(AggregateParts(indices, bl), AggregateOrder(indices, bl),
              convertStopReason(sr), convertUsage(u))

streamCold == <<blocks, stopReason, usage, textContent, thoughtContent, toolCallsMap,
                toolCallOrder, thinkInside, thinkPending, blockArrival,
                firstSeen, usageSeen, deltaSeen, stopAt>>

\* GenerateContent up to the response headers: the request fails in
\* transport, or a response with a status code arrives.
Generate_Transport ==
    /\ gpc = "request"
    /\ yielded' = Append(yielded, ErrorItem)
    /\ gpc' = "done"
    /\ UNCHANGED <<adapter, streaming, nEvents, httpStatus, errorEventAt, cancelAt>>
    /\ UNCHANGED streamCold
    /\ UNCHANGED notStream

Generate_Response(s) ==
    /\ gpc = "request"
    /\ httpStatus' = s
    /\ IF StatusIsError(adapter, s)
       THEN /\ yielded' = Append(yielded, ErrorItem)
            /\ gpc' = "done"
       ELSE /\ yielded' = yielded
            /\ gpc' = IF streaming THEN "reading" ELSE "body"
    /\ UNCHANGED <<adapter, streaming, nEvents, errorEventAt, cancelAt>>
    /\ UNCHANGED streamCold
    /\ UNCHANGED notStream

\* ContentBlock values of a non-streamed Anthropic message.
TextBlock(t) == [Type |-> "text", Text |-> t, Thinking |-> "", ID |-> "", Name |-> "", Input |-> ""]
ThinkingBlock(t) == [Type |-> "thinking", Text |-> "", Thinking |-> t, ID |-> "", Name |-> "", Input |-> ""]
ToolUseBlock(id, name, input) ==
    [Type |-> "tool_use", Text |-> "", Thinking |-> "", ID |-> id, Name |-> name, Input |-> input]
BodyBlocks ==
    {TextBlock("a"), TextBlock(""), ThinkingBlock("b"), ToolUseBlock("toolu_1", "f", "{\"k\":1}")}
BlockSeqs == UNION {[1..n -> BodyBlocks] : n \in 0..MaxBlocks}
UsageValues == {[InputTokens |-> 3, OutputTokens |-> 1], [InputTokens |-> 0, OutputTokens |-> 5]}
\* message_start announces the tokens of the prompt, at least one; a usage
\* without input_tokens, as message_delta sends it, decodes to InputTokens 0.
StartUsageValues == {v \in UsageValues : v.InputTokens > 0}

\* convertAnthropicResponse: the parts of one block.
ConvertBlock(block) ==
    CASE block.Type = "text" ->
            IF block.Text # "" THEN <<TextPart(block.Text, FALSE)>> ELSE <<>>
      [] block.Type = "thinking" ->
            IF block.Thinking # "" THEN <<TextPart(block.Thinking, TRUE)>> ELSE <<>>
      [] block.Type = "tool_use" ->
            <<CallPart(block.ID, block.Name, ParseArgs(block.Input))>>
      [] OTHER -> <<>>

RECURSIVE ConvertBlocks(_)
ConvertBlocks(content) ==
    IF content = <<>> THEN <<>> ELSE ConvertBlock(Head(content)) \o ConvertBlocks(Tail(content))

\* convertAnthropicResponse; the mutant leaves TurnComplete unset.
convertAnthropicResponse_NotComplete(resp) ==
    [FinalItem(ConvertBlocks(resp.Content), <<>>,
               convertStopReason(resp.StopReason), convertUsage(<<resp.Usage>>))
        EXCEPT !.TurnComplete = FALSE]
convertAnthropicResponse(resp) ==
    FinalItem(ConvertBlocks(resp.Content), <<>>,
              convertStopReason(resp.StopReason), convertUsage(<<resp.Usage>>))

\* convertResponsesResponse: the terminal aggregate of a non-streamed
\* Responses API reply.
convertResponsesResponse(text) ==
    FinalItem(IF text = "" THEN <<>> ELSE <<TextPart(text, FALSE)>>, <<>>, "STOP", <<>>)

\* generate (non-streaming): the body does not decode.
Generate_BodyMalformed ==
    /\ gpc = "body"
    /\ yielded' = Append(yielded, ErrorItem)
    /\ gpc' = "done"
    /\ UNCHANGED <<adapter, streaming, nEvents, httpStatus, errorEventAt, cancelAt>>
    /\ UNCHANGED streamCold
    /\ UNCHANGED notStream

\* generate (non-streaming): the decoded body is converted and yielded.
Generate_Body(content, sr, u, text) ==
    /\ gpc = "body"
    /\ yielded' = Append(yielded,
            IF adapter = "anthropic"
            THEN convertAnthropicResponse([Content |-> content, StopReason |-> sr, Usage |-> u])
            ELSE convertResponsesResponse(text))
    /\ gpc' = "done"
    /\ UNCHANGED <<adapter, streaming, nEvents, httpStatus, errorEventAt, cancelAt>>
    /\ UNCHANGED streamCold
    /\ UNCHANGED notStream

(***************************************************************************)
(* AnthropicModel.processStream / handleSSEEvent / handleDelta             *)
(***************************************************************************)
\* The events of the well-formed stream of a message with the most deltas:
\* message_start, a start and one delta per character for every block,
\* message_delta.
BlockTarget(block) ==
    CASE block.Type = "text" -> block.Text
      [] block.Type = "thinking" -> block.Thinking
      [] OTHER -> block.Input

RECURSIVE StreamLength(_)
StreamLength(content) ==
    IF content = <<>> THEN 2
    ELSE 1 + Len(BlockTarget(Head(content))) + StreamLength(Tail(content))

\* The number of events read in one call: bounded for an arbitrary stream,
\* the whole stream when a given message is replayed.
EventLimit == IF replayMsg = <<>> THEN MaxEvents ELSE StreamLength(replayMsg[1].Content)

AnthropicReading == adapter = "anthropic" /\ gpc = "reading" /\ nEvents < EventLimit

NewBlockState(type) ==
    [blockType |-> type,
     toolID |-> IF type = "tool_use" THEN "toolu_1" ELSE "",
     toolName |-> IF type = "tool_use" THEN "f" ELSE "",
     text |-> "", thinking |-> "", toolArgs |-> ""]

\* case "message_start"
handleSSEEvent_MessageStart(u) ==
    /\ AnthropicReading
    /\ usage' = <<u>>
    /\ usageSeen' = [usageSeen EXCEPT !.start = u.InputTokens]
    /\ UNCHANGED <<deltaSeen, stopAt>>
    /\ nEvents' = nEvents + 1
    /\ UNCHANGED <<firstSeen, blockArrival, adapter, streaming, gpc, yielded, blocks, stopReason, textContent,
                   thoughtContent, toolCallsMap, toolCallOrder, thinkInside, thinkPending,
                   httpStatus, errorEventAt, cancelAt>>
    /\ UNCHANGED notStream

\* case "content_block_start": blocks[ev.Index] = bs
handleSSEEvent_ContentBlockStart(index, type) ==
    /\ AnthropicReading
    /\ blocks' = [i \in DOMAIN blocks \cup {index} |->
                    IF i = index THEN NewBlockState(type) ELSE blocks[i]]
    /\ firstSeen' = firstSeen
    /\ UNCHANGED <<usageSeen, deltaSeen, stopAt>>
    /\ blockArrival' = IF index \in DOMAIN blocks THEN blockArrival
                       ELSE Append(blockArrival, index)
    /\ nEvents' = nEvents + 1
    /\ UNCHANGED <<adapter, streaming, gpc, yielded, stopReason, usage, textContent,
                   thoughtContent, toolCallsMap, toolCallOrder, thinkInside, thinkPending,
                   httpStatus, errorEventAt, cancelAt>>
    /\ UNCHANGED notStream

\* handleDelta: the block after the delta, and the partial increment yielded.
DeltaBlock(bs, dtype, d) ==
    CASE dtype = "text_delta" -> [bs EXCEPT !.text = @ \o d]
      [] dtype = "thinking_delta" -> [bs EXCEPT !.thinking = @ \o d]
      [] dtype = "input_json_delta" -> [bs EXCEPT !.toolArgs = @ \o d]
      [] OTHER -> bs

DeltaYield(dtype, d) ==
    CASE dtype = "text_delta" -> <<PartialItem(TextPart(d, FALSE))>>
      [] dtype = "thinking_delta" -> <<PartialItem(TextPart(d, TRUE))>>
      [] OTHER -> <<>>

\* The yield callback returned `cont`: on false handleDelta returns
\* errStopIteration and processStream returns.  The variant goes on reading.
AfterYield_KeepReading(cont) == "reading"
AfterYield(cont) == IF cont THEN "reading" ELSE "done"

\* case "content_block_delta": a delta for an unknown block is ignored; cont
\* is the answer of the yield callback to the partial increment.
handleDelta(index, dtype, d, cont) ==
    /\ AnthropicReading
    /\ IF index \in DOMAIN blocks
       THEN /\ blocks' = [blocks EXCEPT ![index] = DeltaBlock(@, dtype, d)]
            /\ yielded' = yielded \o DeltaYield(dtype, d)
            /\ deltaSeen' = IF dtype \in {"text_delta", "thinking_delta"}
                            THEN Append(deltaSeen, [index |-> index, dtype |-> dtype, text |-> d])
                            ELSE deltaSeen
            /\ IF DeltaYield(dtype, d) # <<>>
               THEN /\ gpc' = AfterYield(cont)
                    /\ stopAt' = IF cont THEN stopAt ELSE Len(yielded')
               ELSE UNCHANGED <<gpc, stopAt>>
       ELSE UNCHANGED <<blocks, yielded, deltaSeen, gpc, stopAt>>
    /\ nEvents' = nEvents + 1
    /\ UNCHANGED <<usageSeen, firstSeen, blockArrival, adapter, streaming, stopReason, usage, textContent,
                   thoughtContent, toolCallsMap, toolCallOrder, thinkInside, thinkPending,
                   httpStatus, errorEventAt, cancelAt>>
    /\ UNCHANGED notStream

\* case "content_block_stop", "message_stop", "ping", an unknown event type,
\* or a payload that does not unmarshal: nothing changes.
handleSSEEvent_Ignored ==
    /\ AnthropicReading
    /\ nEvents' = nEvents + 1
    /\ UNCHANGED <<usageSeen, deltaSeen, stopAt, firstSeen, blockArrival, adapter, streaming, gpc, yielded, blocks, stopReason, usage, textContent,
                   thoughtContent, toolCallsMap, toolCallOrder, thinkInside, thinkPending,
                   httpStatus, errorEventAt, cancelAt>>
    /\ UNCHANGED notStream

\* case "message_delta": u is <<>> when the event carries no usage.
handleSSEEvent_MessageDelta(sr, u) ==
    /\ AnthropicReading
    /\ stopReason' = sr
    /\ usage' = IF u # <<>> THEN u ELSE usage
    /\ usageSeen' = IF u # <<>> THEN [usageSeen EXCEPT !.delta = u[1].OutputTokens] ELSE usageSeen
    /\ UNCHANGED <<deltaSeen, stopAt>>
    /\ nEvents' = nEvents + 1
    /\ UNCHANGED <<firstSeen, blockArrival, adapter, streaming, gpc, yielded, blocks, textContent,
                   thoughtContent, toolCallsMap, toolCallOrder, thinkInside, thinkPending,
                   httpStatus, errorEventAt, cancelAt>>
    /\ UNCHANGED notStream

\* A variant of the error case in which processStream yields the error and
\* goes on reading.
handleSSEEvent_Error_NoReturn ==
    /\ AnthropicReading
    /\ errorEventAt' = Len(yielded)
    /\ yielded' = Append(yielded, ErrorItem)
    /\ nEvents' = nEvents + 1
    /\ UNCHANGED <<gpc, adapter, streaming, httpStatus, cancelAt>>
    /\ UNCHANGED streamCold
    /\ UNCHANGED notStream

\* case "error": handleSSEEvent returns an error, processStream yields it
\* and returns.
handleSSEEvent_Error ==
    /\ AnthropicReading
    /\ errorEventAt' = Len(yielded)
    /\ yielded' = Append(yielded, ErrorItem)
    /\ gpc' = "done"
    /\ nEvents' = nEvents + 1
    /\ UNCHANGED <<adapter, streaming, httpStatus, cancelAt>>
    /\ UNCHANGED streamCold
    /\ UNCHANGED notStream

\* processStream after the scan loop: scanner.Err() is nil (end of stream), a
\* read error, or context.Canceled.
EndCauses == {"eof", "read_error", "canceled"}

processStream_End(cause, iteration) ==
    /\ adapter = "anthropic"
    /\ gpc = "reading"
    /\ yielded' =
         CASE cause = "eof" ->
                Append(yielded, emitFinalResponse(iteration, blocks, stopReason, usage))
           [] cause = "read_error" -> Append(yielded, ErrorItem)
           [] OTHER -> yielded
    /\ cancelAt' = IF cause = "canceled" THEN Len(yielded) ELSE cancelAt
    /\ gpc' = "done"
    /\ UNCHANGED <<adapter, streaming, nEvents, httpStatus, errorEventAt>>
    /\ UNCHANGED streamCold
    /\ UNCHANGED notStream

(***************************************************************************)
(* ResponsesModel.processResponsesStream and its handlers                  *)
(***************************************************************************)
ResponsesReading == adapter = "responses" /\ gpc = "reading" /\ nEvents < MaxEvents

ItemIDs == 1..MaxBlocks
ItemTypes == {"function_call", "message"}
FeedTokens == {"a", "<", "<think>", "</think>"}
DoneArguments == {"", "{\"k\":1}"}
ResponsesUsageValues == {[InputTokens |-> 3, OutputTokens |-> 1, TotalTokens |-> 4]}

\* thinkTagStreamParser.Feed: the segments a chunk releases. A lone "<" is
\* held back as the possible start of a tag; a tag switches between thought
\* and reply text.
ThinkFeedSegments(tok) ==
    CASE tok = "<" ->
            IF thinkPending = "" THEN <<>> ELSE <<[Text |-> thinkPending, Thought |-> thinkInside]>>
      [] tok \in {"<think>", "</think>"} ->
            IF thinkPending = "" THEN <<>> ELSE <<[Text |-> thinkPending, Thought |-> thinkInside]>>
      [] OTHER -> <<[Text |-> thinkPending \o tok, Thought |-> thinkInside]>>

ThinkFeedInside(tok) ==
    CASE tok = "<think>" -> TRUE
      [] tok = "</think>" -> FALSE
      [] OTHER -> thinkInside

ThinkFeedPending(tok) == IF tok = "<" THEN "<" ELSE ""

\* thinkTagStreamParser.Flush: the held-back text.
ThinkFlush ==
    IF thinkPending = "" THEN <<>> ELSE <<[Text |-> thinkPending, Thought |-> thinkInside]>>

\* emitTextSegments: text accumulated and partial increments yielded for the
\* non-empty segments.
RECURSIVE SegmentsText(_, _)
SegmentsText(segments, thought) ==
    IF segments = <<>> THEN ""
    ELSE (IF Head(segments).Thought = thought THEN Head(segments).Text ELSE "")
         \o SegmentsText(Tail(segments), thought)

RECURSIVE SegmentsYield(_)
SegmentsYield(segments) ==
    IF segments = <<>> THEN <<>>
    ELSE (IF Head(segments).Text = "" THEN <<>>
          ELSE <<PartialItem(TextPart(Head(segments).Text, Head(segments).Thought))>>)
         \o SegmentsYield(Tail(segments))

\* The content block a part of the terminal aggregate belongs to: the reply
\* text, the thought text, or a function-call item.
TextTag == [kind |-> "text", id |-> 0]
ThoughtTag == [kind |-> "thought", id |-> 0]
CallTag(itemID) == [kind |-> "call", id |-> itemID]

\* The blocks the non-empty segments belong to, in order.
RECURSIVE SegmentsTags(_)
SegmentsTags(segments) ==
    IF segments = <<>> THEN <<>>
    ELSE (IF Head(segments).Text = "" THEN <<>>
          ELSE <<IF Head(segments).Thought THEN ThoughtTag ELSE TextTag>>)
         \o SegmentsTags(Tail(segments))

\* seen, extended by the tags that are not in it yet.
RECURSIVE SeenAfter(_, _)
SeenAfter(seen, tags) ==
    IF tags = <<>> THEN seen
    ELSE SeenAfter(IF \E k \in 1..Len(seen) : seen[k] = Head(tags) THEN seen
                   ELSE Append(seen, Head(tags)),
                   Tail(tags))

\* emitTextSegments returns false at the first partial increment the yield
\* callback refuses: the segments it has handled by then.
RECURSIVE StopPrefix(_)
StopPrefix(segments) ==
    IF segments = <<>> THEN <<>>
    ELSE IF Head(segments).Text # "" THEN <<Head(segments)>>
    ELSE <<Head(segments)>> \o StopPrefix(Tail(segments))

\* The segments emitTextSegments handles when the callback answers cont to
\* the first partial increment (and true to the others).
EmittedSegments(segments, cont) == IF cont THEN segments ELSE StopPrefix(segments)

\* case "response.output_text.delta"; processResponsesStream returns when
\* handleTextDelta returns false.
handleTextDelta(tok, cont) ==
    /\ ResponsesReading
    /\ LET segments == EmittedSegments(ThinkFeedSegments(tok), cont)
           refused == ~cont /\ SegmentsYield(ThinkFeedSegments(tok)) # <<>>
       IN
        /\ textContent' = textContent \o SegmentsText(segments, FALSE)
        /\ thoughtContent' = thoughtContent \o SegmentsText(segments, TRUE)
        /\ yielded' = yielded \o SegmentsYield(segments)
        /\ firstSeen' = SeenAfter(firstSeen, SegmentsTags(segments))
        /\ gpc' = IF refused THEN "done" ELSE gpc
        /\ stopAt' = IF refused THEN Len(yielded') ELSE stopAt
    /\ thinkInside' = ThinkFeedInside(tok)
    /\ thinkPending' = ThinkFeedPending(tok)
    /\ nEvents' = nEvents + 1
    /\ UNCHANGED <<usageSeen, deltaSeen>>
    /\ UNCHANGED <<blockArrival, adapter, streaming, blocks, stopReason, usage, toolCallsMap,
                   toolCallOrder, httpStatus, errorEventAt, cancelAt>>
    /\ UNCHANGED notStream

\* case "response.function_call_arguments.delta"
handleFuncArgsDelta(itemID, d) ==
    /\ ResponsesReading
    /\ toolCallsMap' = IF itemID \in DOMAIN toolCallsMap
                       THEN [toolCallsMap EXCEPT ![itemID].args = @ \o d]
                       ELSE toolCallsMap
    /\ nEvents' = nEvents + 1
    /\ UNCHANGED <<usageSeen, deltaSeen, stopAt, firstSeen, blockArrival, adapter, streaming, gpc, yielded, blocks, stopReason, usage, textContent,
                   thoughtContent, toolCallOrder, thinkInside, thinkPending,
                   httpStatus, errorEventAt, cancelAt>>
    /\ UNCHANGED notStream

Builder(itemID, args) ==
    [itemID |-> itemID, callID |-> "call", name |-> "f", args |-> args]

\* case "response.output_item.added"
handleOutputItemAdded(type, itemID) ==
    /\ ResponsesReading
    /\ IF type = "function_call"
       THEN /\ toolCallsMap' = [i \in DOMAIN toolCallsMap \cup {itemID} |->
                                  IF i = itemID THEN Builder(itemID, "") ELSE toolCallsMap[i]]
            /\ toolCallOrder' = Append(toolCallOrder, itemID)
       ELSE UNCHANGED <<toolCallsMap, toolCallOrder>>
    /\ nEvents' = nEvents + 1
    /\ firstSeen' = IF type = "function_call" THEN SeenAfter(firstSeen, <<CallTag(itemID)>>) ELSE firstSeen
    /\ UNCHANGED <<usageSeen, deltaSeen, stopAt>>
    /\ UNCHANGED <<blockArrival, adapter, streaming, gpc, yielded, blocks, stopReason, usage, textContent,
                   thoughtContent, thinkInside, thinkPending, httpStatus, errorEventAt, cancelAt>>
    /\ UNCHANGED notStream

\* case "response.output_item.done"
handleOutputItemDone(type, itemID, arguments) ==
    /\ ResponsesReading
    /\ IF type = "function_call"
       THEN IF itemID \in DOMAIN toolCallsMap
            THEN /\ toolCallsMap' = [toolCallsMap EXCEPT ![itemID] =
                        Builder(itemID, IF arguments # "" THEN arguments ELSE @.args)]
                 /\ toolCallOrder' = toolCallOrder
            ELSE /\ toolCallsMap' = [i \in DOMAIN toolCallsMap \cup {itemID} |->
                        IF i = itemID THEN Builder(itemID, arguments) ELSE toolCallsMap[i]]
                 /\ toolCallOrder' = Append(toolCallOrder, itemID)
       ELSE UNCHANGED <<toolCallsMap, toolCallOrder>>
    /\ nEvents' = nEvents + 1
    /\ firstSeen' = IF type = "function_call" THEN SeenAfter(firstSeen, <<CallTag(itemID)>>) ELSE firstSeen
    /\ UNCHANGED <<usageSeen, deltaSeen, stopAt>>
    /\ UNCHANGED <<blockArrival, adapter, streaming, gpc, yielded, blocks, stopReason, usage, textContent,
                   thoughtContent, thinkInside, thinkPending, httpStatus, errorEventAt, cancelAt>>
    /\ UNCHANGED notStream

\* case "response.completed": u is <<>> when the response carries no usage;
\* the usage metadata of the call is kept in `usage`.
handleCompleted(u) ==
    /\ ResponsesReading
    /\ usage' = IF u # <<>>
                THEN <<[PromptTokenCount |-> u[1].InputTokens,
                        CandidatesTokenCount |-> u[1].OutputTokens,
                        TotalTokenCount |-> u[1].TotalTokens]>>
                ELSE usage
    /\ nEvents' = nEvents + 1
    /\ UNCHANGED <<usageSeen, deltaSeen, stopAt, firstSeen, blockArrival, adapter, streaming, gpc, yielded, blocks, stopReason, textContent,
                   thoughtContent, toolCallsMap, toolCallOrder, thinkInside, thinkPending,
                   httpStatus, errorEventAt, cancelAt>>
    /\ UNCHANGED notStream

\* Any other event type falls through the switch; "error" is one of them.
OtherEventTypes == {"error", "response.created"}

processResponsesStream_OtherEvent(type) ==
    /\ ResponsesReading
    /\ errorEventAt' = IF type = "error" /\ errorEventAt = -1 THEN Len(yielded) ELSE errorEventAt
    /\ nEvents' = nEvents + 1
    /\ UNCHANGED <<adapter, streaming, gpc, yielded, httpStatus, cancelAt>>
    /\ UNCHANGED streamCold
    /\ UNCHANGED notStream

\* parseVendorToolCalls: the streams of this model carry no vendor tool-call
\* tags, so no call is extracted and the text is kept.
parseVendorToolCalls(text) == [calls |-> <<>>, cleaned |-> text]

RECURSIVE ToolCallParts(_, _)
ToolCallParts(order, map) ==
    IF order = <<>> THEN <<>>
    ELSE <<CallPart(map[Head(order)].callID, map[Head(order)].name,
                    ParseArgs(map[Head(order)].args))>>
         \o ToolCallParts(Tail(order), map)

\* The terminal aggregate of processResponsesStream.
ResponsesFinal(text, thought, order, map, u) ==
    LET vendor == parseVendorToolCalls(text)
        textParts == IF text # "" /\ vendor.cleaned # ""
                     THEN <<TextPart(vendor.cleaned, FALSE)>> ELSE <<>>
        thoughtParts == IF thought # "" THEN <<TextPart(thought, TRUE)>> ELSE <<>>
        tags == (IF thoughtParts # <<>> THEN <<ThoughtTag>> ELSE <<>>)
                \o (IF textParts # <<>> THEN <<TextTag>> ELSE <<>>)
                \o [k \in 1..Len(order) |-> CallTag(order[k])]
    IN FinalItem(thoughtParts \o textParts \o vendor.calls \o ToolCallParts(order, map),
                 tags, "STOP", u)

\* processResponsesStream after the scan loop: any scanner error, a
\* cancellation included, is yielded as an error; otherwise the parser is
\* flushed and the terminal aggregate is yielded.
processResponsesStream_End(cause, cont) ==
    /\ adapter = "responses"
    /\ gpc = "reading"
    /\ IF cause = "eof"
       THEN LET segments == EmittedSegments(ThinkFlush, cont)
                refused == ~cont /\ SegmentsYield(ThinkFlush) # <<>>
                text == textContent \o SegmentsText(segments, FALSE)
                thought == thoughtContent \o SegmentsText(segments, TRUE)
            IN /\ textContent' = text
               /\ thoughtContent' = thought
               /\ yielded' = (yielded \o SegmentsYield(segments))
                    \o (IF refused THEN <<>>
                        ELSE <<ResponsesFinal(text, thought, toolCallOrder, toolCallsMap, usage)>>)
               /\ stopAt' = IF refused THEN Len(yielded') ELSE stopAt
               /\ firstSeen' = SeenAfter(firstSeen, SegmentsTags(segments))
       ELSE /\ yielded' = Append(yielded, ErrorItem)
            /\ UNCHANGED <<textContent, thoughtContent, stopAt, firstSeen>>
    /\ thinkPending' = IF cause = "eof" THEN "" ELSE thinkPending
    /\ cancelAt' = IF cause = "canceled" THEN Len(yielded) ELSE cancelAt
    /\ gpc' = "done"
    /\ UNCHANGED <<usageSeen, deltaSeen>>
    /\ UNCHANGED <<blockArrival, adapter, streaming, blocks, stopReason, usage, toolCallsMap, toolCallOrder,
                   thinkInside, nEvents, httpStatus, errorEventAt>>
    /\ UNCHANGED notStream

StreamIdle ==
    /\ adapter = "anthropic"
    /\ streaming = FALSE
    /\ gpc = "off"
    /\ yielded = <<>>
    /\ blocks = <<>>
    /\ stopReason = ""
    /\ usage = <<>>
    /\ textContent = ""
    /\ thoughtContent = ""
    /\ toolCallsMap = <<>>
    /\ toolCallOrder = <<>>
    /\ thinkInside = FALSE
    /\ thinkPending = ""
    /\ nEvents = 0
    /\ httpStatus = 0
    /\ errorEventAt = -1
    /\ cancelAt = -1
    /\ blockArrival = <<>>
    /\ firstSeen = <<>>
    /\ usageSeen = [start |-> -1, delta |-> -1]
    /\ deltaSeen = <<>>
    /\ stopAt = -1

StreamInit ==
    /\ adapter \in Adapters
    /\ streaming \in BOOLEAN
    /\ gpc = "request"
    /\ yielded = <<>>
    /\ blocks = <<>>
    /\ stopReason = ""
    /\ usage = <<>>
    /\ textContent = ""
    /\ thoughtContent = ""
    /\ toolCallsMap = <<>>
    /\ toolCallOrder = <<>>
    /\ thinkInside = FALSE
    /\ thinkPending = ""
    /\ nEvents = 0
    /\ httpStatus = 0
    /\ errorEventAt = -1
    /\ cancelAt = -1
    /\ blockArrival = <<>>
    /\ firstSeen = <<>>
    /\ usageSeen = [start |-> -1, delta |-> -1]
    /\ deltaSeen = <<>>
    /\ stopAt = -1

StreamStep ==
    \/ Generate_Transport
    \/ \E s \in Statuses : Generate_Response(s)
    \/ Generate_BodyMalformed
    \/ \E content \in BlockSeqs, sr \in StopReasons, u \in UsageValues, text \in {"", "a"} :
            Generate_Body(content, sr, u, text)
    \/ \E u \in StartUsageValues : handleSSEEvent_MessageStart(u)
    \/ \E index \in Indices, type \in BlockTypes : handleSSEEvent_ContentBlockStart(index, type)
    \/ \E index \in Indices, dtype \in {"text_delta", "thinking_delta"}, d \in DeltaTexts,
          cont \in BOOLEAN : handleDelta(index, dtype, d, cont)
    \/ \E index \in Indices, d \in JSONFragments : handleDelta(index, "input_json_delta", d, TRUE)
    \/ handleSSEEvent_Ignored
    \/ \E sr \in StopReasons, u \in {<<>>} \cup {<<v>> : v \in UsageValues} :
            handleSSEEvent_MessageDelta(sr, u)
    \/ handleSSEEvent_Error
    \/ \E cause \in EndCauses, iteration \in MapIterationOrders(DOMAIN blocks) :
            processStream_End(cause, iteration)
    \/ \E tok \in FeedTokens, cont \in BOOLEAN : handleTextDelta(tok, cont)
    \/ \E itemID \in ItemIDs, d \in JSONFragments : handleFuncArgsDelta(itemID, d)
    \/ \E type \in ItemTypes, itemID \in ItemIDs : handleOutputItemAdded(type, itemID)
    \/ \E type \in ItemTypes, itemID \in ItemIDs, arguments \in DoneArguments :
            handleOutputItemDone(type, itemID, arguments)
    \/ \E u \in {<<>>} \cup {<<v>> : v \in ResponsesUsageValues} : handleCompleted(u)
    \/ \E type \in OtherEventTypes : processResponsesStream_OtherEvent(type)
    \/ \E cause \in EndCauses, cont \in BOOLEAN : processResponsesStream_End(cause, cont)

(***************************************************************************)
(* anthropic request conversion: toAnthropicMessages                       *)
(***************************************************************************)
MaxContents == 3      \* turns of one request

\* genai.Part values; a nil FunctionCall / FunctionResponse is <<>>.
Part(text, thought, call, resp) ==
    [Text |-> text, Thought |-> thought, FunctionCall |-> call, FunctionResponse |-> resp]
PText(t) == Part(t, FALSE, <<>>, <<>>)
PThought(t) == Part(t, TRUE, <<>>, <<>>)
PCall == Part("", FALSE, <<[ID |-> "call_1", Name |-> "f", Args |-> "map[k:1]"]>>, <<>>)
PResp == Part("", FALSE, <<>>, <<[ID |-> "call_1", Name |-> "f", Response |-> "{}"]>>)
PThoughtCall == Part("t", TRUE, <<[ID |-> "call_t", Name |-> "f", Args |-> "map[k:1]"]>>, <<>>)

\* The part lists a turn is drawn from: empty, plain text, thought only,
\* empty text, a function call, a function result after text, thought
\* that carries a call followed by text.
PartLists ==
    {<<>>, <<PText("a")>>, <<PThought("t")>>, <<PText("")>>, <<PCall>>,
     <<PResp, PText("b")>>, <<PThoughtCall, PText("c")>>}
Roles == {"user", "model"}
NilContent == [isNil |-> TRUE, Role |-> "", Parts |-> <<>>]
ContentValues ==
    {NilContent} \cup {[isNil |-> FALSE, Role |-> r, Parts |-> p] : r \in Roles, p \in PartLists}
ContentSeqs == UNION {[1..n -> ContentValues] : n \in 0..MaxContents}

\* The system instructions a request is drawn from: none, thought before
\* text, thought between two texts.
SystemInstructions ==
    {<<>>,
     <<[isNil |-> FALSE, Role |-> "system", Parts |-> <<PThought("t"), PText("s")>>]>>,
     <<[isNil |-> FALSE, Role |-> "system", Parts |-> <<PText("s"), PThought("t"), PText("r")>>]>>}

\* extractTextFromContent: the texts of the parts that are not thought,
\* joined by newlines.  The mutant keeps the thought parts.
RECURSIVE JoinTexts(_)
JoinTexts(texts) ==
    IF texts = <<>> THEN ""
    ELSE IF Len(texts) = 1 THEN texts[1]
    ELSE texts[1] \o "\n" \o JoinTexts(Tail(texts))

extractTextFromContent_KeepThought(content) ==
    IF content.isNil THEN ""
    ELSE LET kept == SelectSeq(content.Parts, LAMBDA p : p.Text # "")
         IN  JoinTexts([k \in 1..Len(kept) |-> kept[k].Text])
extractTextFromContent(content) ==
    IF content.isNil THEN ""
    ELSE LET kept == SelectSeq(content.Parts, LAMBDA p : p.Text # "" /\ ~p.Thought)
         IN  JoinTexts([k \in 1..Len(kept) |-> kept[k].Text])

\* json.Marshal of function-call arguments.
MarshalArgs(args) == IF args = "map[k:1]" THEN "{\"k\":1}" ELSE "{}"

\* toToolResultContent: an object is marshalled and the document is then
\* encoded as a JSON string.
\* The mutant hands the document over as it is.
toToolResultContent_Raw(resp) == resp
toToolResultContent(resp) == "\"" \o resp \o "\""

Block(type, text, id, name, input, toolUseID, raw) ==
    [Type |-> type, Text |-> text, ID |-> id, Name |-> name, Input |-> input,
     ToolUseID |-> toolUseID, RawContent |-> raw]

\* toAnthropicMessages, inner loop: the blocks one part contributes.
PartBlocks(part) ==
    IF part.Thought THEN <<>>
    ELSE (IF part.Text # "" THEN <<Block("text", part.Text, "", "", "", "", "")>> ELSE <<>>)
      \o (IF part.FunctionCall # <<>>
          THEN <<Block("tool_use", "", part.FunctionCall[1].ID, part.FunctionCall[1].Name,
                       MarshalArgs(part.FunctionCall[1].Args), "", "")>>
          ELSE <<>>)
      \o (IF part.FunctionResponse # <<>>
          THEN <<Block("tool_result", "", "", "", "", part.FunctionResponse[1].ID,
                       toToolResultContent(part.FunctionResponse[1].Response))>>
          ELSE <<>>)

RECURSIVE PartsBlocks(_)
PartsBlocks(parts) ==
    IF parts = <<>> THEN <<>> ELSE PartBlocks(Head(parts)) \o PartsBlocks(Tail(parts))

ContentBlocks(content) == IF content.isNil THEN <<>> ELSE PartsBlocks(content.Parts)

ContentRole(content) == IF content.Role = "model" THEN "assistant" ELSE "user"

\* A variant of the merge that always starts a new message.
AppendOrMerge_NeverMerge(ms, role, blks) == Append(ms, [Role |-> role, Content |-> blks])

\* toAnthropicMessages, end of the loop body: the blocks join the last
\* message when it has the same role, otherwise they start a new message.
AppendOrMerge(ms, role, blks) ==
    IF Len(ms) > 0 /\ ms[Len(ms)].Role = role
    THEN [ms EXCEPT ![Len(ms)].Content = @ \o blks]
    ELSE Append(ms, [Role |-> role, Content |-> blks])

\* toAnthropicRequest before the messages: the system instruction becomes
\* the top-level system field.
toAnthropicRequest_System ==
    /\ ci = 0
    /\ ~sysDone
    /\ arSystem' = IF sysInstr # <<>> THEN extractTextFromContent(sysInstr[1]) ELSE arSystem
    /\ sysDone' = TRUE
    /\ UNCHANGED <<contents, ci, msgs, sysInstr>>
    /\ UNCHANGED notConv

\* One iteration of the loop over contents.
toAnthropicMessages_Turn ==
    /\ ci >= 0
    /\ sysDone
    /\ ci < Len(contents)
    /\ LET content == contents[ci + 1]
           blks == ContentBlocks(content)
       IN msgs' = IF content.isNil \/ blks = <<>> THEN msgs
                  ELSE AppendOrMerge(msgs, ContentRole(content), blks)
    /\ ci' = ci + 1
    /\ UNCHANGED <<contents, sysInstr, sysDone, arSystem>>
    /\ UNCHANGED notConv

ConvIdle ==
    /\ contents = <<>>
    /\ ci = -1
    /\ msgs = <<>>
    /\ sysInstr = <<>>
    /\ sysDone = FALSE
    /\ arSystem = ""

ConvInit ==
    /\ contents \in ContentSeqs
    /\ ci = 0
    /\ msgs = <<>>
    /\ sysInstr \in SystemInstructions
    /\ sysDone = FALSE
    /\ arSystem = ""

ConvStep ==
    \/ toAnthropicRequest_System
    \/ toAnthropicMessages_Turn

(***************************************************************************)
(* internal/adk/mcp: Manager and prefixedTool                              *)
(***************************************************************************)
ServerIDs == {"mcp-1", "mcp-2"}
ServerNames == {"search", "news"}
InnerTools == {"query", "fetch"}

\* models.MCPServerConfig values of a configuration list with one entry per
\* server id.
ConfigLists ==
    [ServerIDs -> [Name : ServerNames, Enabled : BOOLEAN]]

\* prefixedTool.Name
Name(t) == t.prefix \o ":" \o t.inner

\* Manager.LoadConfigs: the map is rebuilt from the enabled servers.
LoadConfigs(configs) ==
    /\ mcpConfigs' = [id \in {i \in ServerIDs : configs[i].Enabled} |-> configs[id]]
    /\ UNCHANGED <<wrappedTools, reqTools, reqDecls, lastRun>>
    /\ UNCHANGED notTools

\* Manager.createToolset: the toolset is wrapped with the prefix cfg.Name.
createToolset(serverID) == [server |-> serverID, prefix |-> mcpConfigs[serverID].Name]

\* Manager.GetToolset followed by prefixedToolset.Tools: every tool the
\* server exposes is wrapped into a prefixedTool.
GetToolset_Tools(serverID, exposed) ==
    /\ serverID \in DOMAIN mcpConfigs
    /\ LET ts == createToolset(serverID) IN
         wrappedTools' = wrappedTools \cup
            {[server |-> ts.server, prefix |-> ts.prefix, inner |-> n] : n \in exposed}
    /\ UNCHANGED <<mcpConfigs, reqTools, reqDecls, lastRun>>
    /\ UNCHANGED notTools

\* The inner tools that implement the function-tool interface and have a
\* declaration; "fetch" is a tool without one.
FunctionTools == {"query"}

\* prefixedTool.Declaration: the inner declaration re-emitted under the
\* prefixed name, <<>> (nil) when the inner tool has none.  The mutant keeps
\* the inner tool's own name.
Declaration_Unprefixed(t) ==
    IF t.inner \notin FunctionTools THEN <<>>
    ELSE <<[Name |-> t.inner, Description |-> t.inner]>>
Declaration(t) ==
    IF t.inner \notin FunctionTools THEN <<>>
    ELSE <<[Name |-> Name(t), Description |-> t.inner]>>

\* prefixedTool.ProcessRequest: a name already present in req.Tools is
\* skipped; otherwise the tool is registered and its declaration, if it has
\* one, is added to the function declarations.
ProcessRequest(t) ==
    /\ t \in wrappedTools
    /\ IF Name(t) \in DOMAIN reqTools
       THEN UNCHANGED <<reqTools, reqDecls>>
       ELSE /\ reqTools' = [n \in DOMAIN reqTools \cup {Name(t)} |->
                               IF n = Name(t) THEN t ELSE reqTools[n]]
            /\ reqDecls' = reqDecls \o Declaration(t)
    /\ UNCHANGED <<mcpConfigs, wrappedTools, lastRun>>
    /\ UNCHANGED notTools

\* A function call the model returned under a declared name: the tool
\* registered under that name is looked up and prefixedTool.Run hands the
\* call to its inner tool.
Run(name) ==
    /\ name \in DOMAIN reqTools
    /\ \E k \in 1..Len(reqDecls) : reqDecls[k].Name = name
    /\ lastRun' = <<[name |-> name, server |-> reqTools[name].server, tool |-> reqTools[name].inner]>>
    /\ UNCHANGED <<mcpConfigs, wrappedTools, reqTools, reqDecls>>
    /\ UNCHANGED notTools

ToolsIdle ==
    /\ mcpConfigs = <<>>
    /\ wrappedTools = {}
    /\ reqTools = <<>>
    /\ reqDecls = <<>>
    /\ lastRun = <<>>

ToolsStep ==
    \/ \E configs \in ConfigLists : LoadConfigs(configs)
    \/ \E serverID \in ServerIDs, exposed \in (SUBSET InnerTools) \ {{}} :
            GetToolset_Tools(serverID, exposed)
    \/ \E t \in wrappedTools : ProcessRequest(t)
    \/ \E name \in DOMAIN reqTools : Run(name)

(***************************************************************************)
(* internal/adk/mcp/manager.go: toolsets on demand                         *)
(***************************************************************************)
MaxToolsets == 4      \* toolsets constructed in one behaviour

\* The id lists a caller passes: known ids, a repeated id, unknown ids.
IDLists == {<<>>, <<"mcp-1", "mcp-2">>, <<"mcp-2", "mcp-2">>, <<"mcp-9", "mcp-1", "mcp-2">>}

\* The servers whose toolset construction fails during one call.
FailingSets == {{}, {"mcp-1"}, ServerIDs}

\* createToolset, the n-th toolset constructed: a new transport wrapped with
\* the prefix.  The mutant hands out one shared toolset per server.
NewToolset_Pooled(n, serverID) ==
    [inst |-> 0, server |-> createToolset(serverID).server, prefix |-> createToolset(serverID).prefix]
NewToolset(n, serverID) ==
    [inst |-> n, server |-> createToolset(serverID).server, prefix |-> createToolset(serverID).prefix]

\* The loop over the collected configurations: a toolset per server in
\* iteration order, a server whose construction fails is skipped.
RECURSIVE CreateAll(_, _, _)
CreateAll(order, failing, n) ==
    IF order = <<>> THEN <<>>
    ELSE IF Head(order) \in failing THEN CreateAll(Tail(order), failing, n)
    ELSE <<NewToolset(n + 1, Head(order))>> \o CreateAll(Tail(order), failing, n + 1)

\* GetToolsetsByIDs, first loop: the requested ids that are loaded.
MatchedIDs(ids) == {ids[k] : k \in 1..Len(ids)} \cap DOMAIN mcpConfigs

\* Manager.GetToolsetsByIDs; order is the iteration order of the collected
\* map.  The mutant returns nothing when one construction fails.
GetToolsetsByIDs_FailWhole(ids, failing, order) ==
    IF MatchedIDs(ids) \cap failing # {} THEN <<>> ELSE CreateAll(order, failing, created)
GetToolsetsByIDs(ids, failing, order) == CreateAll(order, failing, created)

\* The bookkeeping common to the Manager calls.
Returned(op, ids, failing, result) ==
    /\ created + Cardinality(ServerIDs) <= MaxToolsets
    /\ created' = created + Len(result)
    /\ handedOut' = handedOut \cup
            {[inst |-> lastResult[k].inst, server |-> lastResult[k].server] : k \in 1..Len(lastResult)}
    /\ lastResult' = result
    /\ lastCall' = <<[op |-> op, ids |-> ids, failing |-> failing, loaded |-> DOMAIN mcpConfigs]>>

\* Manager.GetToolset
GetToolset(serverID, failing) ==
    /\ Returned("GetToolset", <<serverID>>, failing,
                IF serverID \in DOMAIN mcpConfigs
                THEN CreateAll(<<serverID>>, failing, created) ELSE <<>>)
    /\ UNCHANGED agent
    /\ UNCHANGED notMgr

\* Manager.GetAllToolsets
GetAllToolsets(failing, order) ==
    /\ order \in MapIterationOrders(DOMAIN mcpConfigs)
    /\ Returned("GetAllToolsets", <<>>, failing, CreateAll(order, failing, created))
    /\ UNCHANGED agent
    /\ UNCHANGED notMgr

\* ExpertAgentBuilder.BuildAgentWithContext: the toolsets of the agent's MCP
\* servers are requested when it names any, and the agent is built with them.
BuildAgentWithContext(mcpServers, failing, order) ==
    /\ IF Len(mcpServers) > 0
       THEN /\ order \in MapIterationOrders(MatchedIDs(mcpServers))
            /\ Returned("GetToolsetsByIDs", mcpServers, failing,
                        GetToolsetsByIDs(mcpServers, failing, order))
            /\ agent' = <<[Toolsets |-> GetToolsetsByIDs(mcpServers, failing, order)]>>
       ELSE /\ order = <<>>
            /\ failing = {}
            /\ Returned("none", mcpServers, failing, <<>>)
            /\ agent' = <<[Toolsets |-> <<>>]>>
    /\ UNCHANGED notMgr

MgrIdle ==
    /\ created = 0
    /\ handedOut = {}
    /\ lastResult = <<>>
    /\ lastCall = <<>>
    /\ agent = <<>>

MgrOrders == UNION {MapIterationOrders(S) : S \in SUBSET ServerIDs}

MgrStep ==
    \/ \E configs \in ConfigLists : LoadConfigs(configs)
    \/ \E serverID \in ServerIDs \cup {"mcp-9"}, failing \in FailingSets :
            GetToolset(serverID, failing)
    \/ \E failing \in FailingSets, order \in MgrOrders : GetAllToolsets(failing, order)
    \/ \E mcpServers \in IDLists, failing \in FailingSets, order \in MgrOrders :
            BuildAgentWithContext(mcpServers, failing, order)

(***************************************************************************)
(* One round of a meeting: SendMeetingMessage from the saved user message  *)
(* to its return, with the orchestrator's per-agent turns.                 *)
(* The orchestrator (internal/meeting) is modelled from its description.   *)
(***************************************************************************)
MaxAgents == 2        \* agents of the active strategy

AgentIDs == {"risk", "macro"}
AgentConfig(id, enabled) == [ID |-> id, Enabled |-> enabled]
AgentValues == {AgentConfig(id, en) : id \in AgentIDs, en \in BOOLEAN}
AgentLists == UNION {[1..n -> AgentValues] : n \in 0..MaxAgents}
MentionLists == {<<>>, <<"risk">>, <<"macro", "risk">>, <<"ghost">>,
                 <<"risk", "ghost">>, <<"risk", "risk">>}
AIConfig(id, isDefault) == [ID |-> id, IsDefault |-> isDefault]
AppConfigs == {[AIConfigs |-> <<>>, DefaultAIID |-> ""],
               [AIConfigs |-> <<AIConfig("c1", FALSE)>>, DefaultAIID |-> ""],
               [AIConfigs |-> <<AIConfig("c1", FALSE), AIConfig("c2", TRUE)>>, DefaultAIID |-> "c9"]}

\* getDefaultAIConfig: the index of the chosen configuration, None for nil.
getDefaultAIConfig(config) ==
    LET hits == {i \in 1..Len(config.AIConfigs) :
                    \/ config.AIConfigs[i].ID = config.DefaultAIID
                    \/ config.AIConfigs[i].IsDefault}
    IN  IF hits # {} THEN CHOOSE i \in hits : \A j \in hits : i <= j
        ELSE IF Len(config.AIConfigs) > 0 THEN 1
        ELSE None

\* StrategyService.GetEnabledAgents
GetEnabledAgents(agents) == SelectSeq(agents, LAMBDA a : a.Enabled)

\* StrategyService.GetAgentsByIDs: the mutant returns every agent.
GetAgentsByIDs_All(agents, ids) == agents
GetAgentsByIDs(agents, ids) ==
    LET idSet == {ids[k] : k \in 1..Len(ids)}
    IN  SelectSeq(agents, LAMBDA a : a.ID \in idSet)

\* models.ChatMessage; slot is the position of the agent in the round (0: the user).
ChatMessage(agentID, msgType, slot) == [AgentID |-> agentID, MsgType |-> msgType, slot |-> slot]
UserMessage == ChatMessage("user", "user", 0)

\* The event channel of a topic's finished agent turns.
MessageChannel(code) == "meeting:message:" \o code

\* respCallback and the loop body of convertSaveAndEmitResponses: every response
\* is saved with AddMessage, then emitted on the topic's channel.  The mutant
\* emits before it saves.
SaveAndEmit_EmitFirst(code, resps) ==
    IF Len(resps) = 0 THEN <<>>
    ELSE [k \in 1..(2 * Len(resps)) |->
            IF k % 2 = 0 THEN [op |-> "AddMessage", key |-> code, msg |-> resps[k \div 2]]
            ELSE [op |-> "EventsEmit", key |-> MessageChannel(code), msg |-> resps[(k + 1) \div 2]]]
SaveAndEmit(code, resps) ==
    IF Len(resps) = 0 THEN <<>>
    ELSE [k \in 1..(2 * Len(resps)) |->
            IF k % 2 = 1 THEN [op |-> "AddMessage", key |-> code, msg |-> resps[(k + 1) \div 2]]
            ELSE [op |-> "EventsEmit", key |-> MessageChannel(code), msg |-> resps[k \div 2]]]

\* Retry policy: an agent's turn is given up after the first call and one retry.
TurnExhausted_ThreeCalls(outs) == Len(outs) >= 3
TurnExhausted(outs) == Len(outs) >= 2

SlotDone(i) == \E k \in 1..Len(responses) : responses[k].slot = i
RoundSlots == 1..Len(roundAgents)

\* SendMeetingMessage: the user message is saved, no AI configuration is found.
SendMeetingMessage_NoConfig ==
    /\ rpc = "start"
    /\ getDefaultAIConfig(appConfig) = None
    /\ session' = Append(session, UserMessage)
    /\ returned' = <<>>
    /\ rpc' = "aborted"
    /\ UNCHANGED <<appConfig, strategyAgents, mentionIds, roundAgents, outcomes, responses, emitted,
                   roundTopic, journal>>
    /\ UNCHANGED notRound

\* SendMeetingMessage with mentions: runDirectMeeting up to the orchestrator call.
runDirectMeeting_Start ==
    /\ rpc = "start"
    /\ getDefaultAIConfig(appConfig) # None
    /\ Len(mentionIds) # 0
    /\ session' = Append(session, UserMessage)
    /\ LET agentConfigs == GetAgentsByIDs(strategyAgents, mentionIds)
       IN  /\ roundAgents' = agentConfigs
           /\ outcomes' = [i \in 1..Len(agentConfigs) |-> <<>>]
           /\ rpc' = IF Len(agentConfigs) = 0 THEN "done" ELSE "direct"
    /\ returned' = <<>>
    /\ UNCHANGED <<appConfig, strategyAgents, mentionIds, responses, emitted, roundTopic, journal>>
    /\ UNCHANGED notRound

\* SendMeetingMessage without mentions: runSmartMeeting up to the orchestrator
\* call; the moderation pass picks the subset sel of the enabled agents.
runSmartMeeting_Start(sel) ==
    /\ rpc = "start"
    /\ getDefaultAIConfig(appConfig) # None
    /\ Len(mentionIds) = 0
    /\ session' = Append(session, UserMessage)
    /\ LET chosen == SelectSeq(GetEnabledAgents(strategyAgents), LAMBDA a : a.ID \in sel)
       IN  /\ roundAgents' = chosen
           /\ outcomes' = [i \in 1..Len(chosen) |-> <<>>]
    /\ rpc' = "smart"
    /\ UNCHANGED <<appConfig, strategyAgents, mentionIds, responses, emitted, returned,
                   roundTopic, journal>>
    /\ UNCHANGED notRound

\* One provider call of the agent in slot i (ok: it succeeds).  A failed first
\* call leaves the turn open for the retry; a failed retry records an
\* error-kind response.  In smart mode respCallback saves and emits the response.
RunAgentTurn(i, ok) ==
    /\ rpc \in {"direct", "smart"}
    /\ i \in RoundSlots
    /\ ~SlotDone(i)
    /\ ~TurnExhausted(outcomes[i])
    /\ outcomes' = [outcomes EXCEPT ![i] = Append(@, ok)]
    /\ LET resp == IF ok THEN <<ChatMessage(roundAgents[i].ID, "opinion", i)>>
                   ELSE IF TurnExhausted(outcomes'[i])
                        THEN <<ChatMessage(roundAgents[i].ID, "error", i)>>
                        ELSE <<>>
       IN  /\ responses' = responses \o resp
           /\ IF rpc = "smart"
              THEN /\ session' = session \o resp
                   /\ emitted' = emitted \o resp
                   /\ journal' = journal \o SaveAndEmit(roundTopic, resp)
              ELSE UNCHANGED <<session, emitted, journal>>
    /\ UNCHANGED <<rpc, appConfig, strategyAgents, mentionIds, roundAgents, returned, roundTopic>>
    /\ UNCHANGED notRound

\* runDirectMeeting after the orchestrator returned: convertSaveAndEmitResponses.
\* The mutant leaves the error-kind responses out.
runDirectMeeting_Return_DropErrors ==
    /\ rpc = "direct"
    /\ \A i \in RoundSlots : SlotDone(i)
    /\ LET kept == SelectSeq(responses, LAMBDA m : m.MsgType # "error")
       IN  /\ session' = session \o kept
           /\ emitted' = emitted \o kept
           /\ returned' = kept
           /\ journal' = journal \o SaveAndEmit(roundTopic, kept)
    /\ rpc' = "done"
    /\ UNCHANGED <<appConfig, strategyAgents, mentionIds, roundAgents, outcomes, responses, roundTopic>>
    /\ UNCHANGED notRound
runDirectMeeting_Return ==
    /\ rpc = "direct"
    /\ \A i \in RoundSlots : SlotDone(i)
    /\ session' = session \o responses
    /\ emitted' = emitted \o responses
    /\ returned' = responses
    /\ journal' = journal \o SaveAndEmit(roundTopic, responses)
    /\ rpc' = "done"
    /\ UNCHANGED <<appConfig, strategyAgents, mentionIds, roundAgents, outcomes, responses, roundTopic>>
    /\ UNCHANGED notRound

\* runSmartMeeting after the orchestrator returned.
runSmartMeeting_Return ==
    /\ rpc = "smart"
    /\ \A i \in RoundSlots : SlotDone(i)
    /\ returned' = responses
    /\ rpc' = "done"
    /\ UNCHANGED <<appConfig, strategyAgents, mentionIds, roundAgents, outcomes, responses,
                   session, emitted, roundTopic, journal>>
    /\ UNCHANGED notRound

RoundIdle ==
    /\ rpc = "idle"
    /\ appConfig = [AIConfigs |-> <<>>, DefaultAIID |-> ""]
    /\ strategyAgents = <<>>
    /\ mentionIds = <<>>
    /\ roundAgents = <<>>
    /\ outcomes = <<>>
    /\ responses = <<>>
    /\ session = <<>>
    /\ emitted = <<>>
    /\ returned = <<>>
    /\ roundTopic = ""
    /\ journal = <<>>

RoundInit ==
    /\ rpc = "start"
    /\ appConfig \in AppConfigs
    /\ strategyAgents \in AgentLists
    /\ mentionIds \in MentionLists
    /\ roundAgents = <<>>
    /\ outcomes = <<>>
    /\ responses = <<>>
    /\ session = <<>>
    /\ emitted = <<>>
    /\ returned = <<>>
    /\ roundTopic \in Topics
    /\ journal = <<>>

RoundStep ==
    \/ SendMeetingMessage_NoConfig
    \/ runDirectMeeting_Start
    \/ \E sel \in SUBSET AgentIDs : runSmartMeeting_Start(sel)
    \/ \E i \in 1..(MaxAgents + 1), ok \in BOOLEAN : RunAgentTurn(i, ok)
    \/ runDirectMeeting_Return
    \/ runSmartMeeting_Return

(***************************************************************************)
(* app.go: RemoveFromWatchlist next to a meeting of the same topic         *)
(* The session service and the memory manager are modelled from their      *)
(* description: ClearMessages empties the transcript, DeleteMemory deletes *)
(* the memory, a completed round is recorded in the memory.                *)
(***************************************************************************)
MaxMessages == 2      \* messages in the transcript of one topic
MaxRounds == 1        \* rounds recorded in the memory of one topic

\* App.AddToWatchlist
AddToWatchlist(symbol) ==
    /\ symbol \notin watchlist
    /\ watchlist' = watchlist \cup {symbol}
    /\ wlReturn' = "success"
    /\ UNCHANGED <<wlMeeting, wlTranscript, wlMemory, removed>>
    /\ UNCHANGED notWl

\* sessionService.ClearMessages
ClearMessages(symbol) == [wlTranscript EXCEPT ![symbol] = <<>>]

\* memoryManager.DeleteMemory
DeleteMemory(symbol) == [wlMemory EXCEPT ![symbol] = 0]

\* App.RemoveFromWatchlist: the configuration service removes the symbol,
\* then the transcript is cleared and the memory deleted; a meeting of the
\* topic is left as it is.
RemoveFromWatchlist(symbol) ==
    /\ symbol \in watchlist
    /\ watchlist' = watchlist \ {symbol}
    /\ wlTranscript' = ClearMessages(symbol)
    /\ wlMemory' = DeleteMemory(symbol)
    /\ removed' = [removed EXCEPT ![symbol] = TRUE]
    /\ wlReturn' = "success"
    /\ UNCHANGED wlMeeting
    /\ UNCHANGED notWl

\* App.RemoveFromWatchlist: the configuration service reports an error.
RemoveFromWatchlist_Error(symbol) ==
    /\ symbol \notin watchlist
    /\ wlReturn' = "error"
    /\ UNCHANGED <<watchlist, wlMeeting, wlTranscript, wlMemory, removed>>
    /\ UNCHANGED notWl

\* App.SendMeetingMessage: a new query for the topic; a meeting of the topic
\* that is still running is superseded.
SendMeetingMessage_Query(stockCode) ==
    /\ Len(wlTranscript[stockCode]) < MaxMessages
    /\ wlTranscript' = [wlTranscript EXCEPT ![stockCode] = Append(@, "user")]
    /\ wlMeeting' = [wlMeeting EXCEPT ![stockCode] = "running"]
    /\ removed' = [removed EXCEPT ![stockCode] = FALSE]
    /\ UNCHANGED <<watchlist, wlMemory, wlReturn>>
    /\ UNCHANGED notWl

\* runSmartMeeting, respCallback: a finished agent turn is saved.
runSmartMeeting_respCallback(stockCode) ==
    /\ wlMeeting[stockCode] = "running"
    /\ Len(wlTranscript[stockCode]) < MaxMessages
    /\ wlTranscript' = [wlTranscript EXCEPT ![stockCode] = Append(@, "agent")]
    /\ UNCHANGED <<watchlist, wlMeeting, wlMemory, removed, wlReturn>>
    /\ UNCHANGED notWl

\* The round completes: it is recorded in the topic's memory and
\* SendMeetingMessage returns.
runSmartMeeting_Complete(stockCode) ==
    /\ wlMeeting[stockCode] = "running"
    /\ wlMemory' = [wlMemory EXCEPT ![stockCode] = IF @ < MaxRounds THEN @ + 1 ELSE @]
    /\ wlMeeting' = [wlMeeting EXCEPT ![stockCode] = "idle"]
    /\ UNCHANGED <<watchlist, wlTranscript, removed, wlReturn>>
    /\ UNCHANGED notWl

WlIdle ==
    /\ watchlist = {}
    /\ wlMeeting = [t \in Topics |-> "idle"]
    /\ wlTranscript = [t \in Topics |-> <<>>]
    /\ wlMemory = [t \in Topics |-> 0]
    /\ removed = [t \in Topics |-> FALSE]
    /\ wlReturn = ""

WlStep ==
    \/ \E symbol \in Topics : AddToWatchlist(symbol)
    \/ \E symbol \in Topics : RemoveFromWatchlist(symbol)
    \/ \E symbol \in Topics : RemoveFromWatchlist_Error(symbol)
    \/ \E stockCode \in Topics : SendMeetingMessage_Query(stockCode)
    \/ \E stockCode \in Topics : runSmartMeeting_respCallback(stockCode)
    \/ \E stockCode \in Topics : runSmartMeeting_Complete(stockCode)

(***************************************************************************)
(* ModelFactory.DetectSystemRoleSupport: the system-role probe             *)
(***************************************************************************)
systemRoleProbeKeyword == "SYS_PROBE_7X3K"

Providers == {"openai", "anthropic", "gemini"}
ProbeConfigs == [Provider : Providers, UseResponses : BOOLEAN]
ProbeStatuses == {200, 401, 500}
ReplyTexts == {"SYS_PROBE_7X3K", "ok: SYS_PROBE_7X3K.", "SYS_PROBE", "hello", ""}

\* A response body: a chat-completions document, a Responses document, or
\* text that is no JSON document; oversize: longer than the 2048 bytes read.
ChatBody(texts, oversize) ==
    [format |-> "chat", choices |-> texts, output_text |-> "", oversize |-> oversize]
ResponsesBody(text, oversize) ==
    [format |-> "responses", choices |-> <<>>, output_text |-> text, oversize |-> oversize]
PlainBody == [format |-> "text", choices |-> <<>>, output_text |-> "", oversize |-> FALSE]
CutBody == [format |-> "cut", choices |-> <<>>, output_text |-> "", oversize |-> FALSE]
ProbeBodies ==
    {ChatBody(<<t>>, o) : t \in ReplyTexts, o \in BOOLEAN}
    \cup {ChatBody(<<>>, FALSE), ChatBody(<<"hello", "SYS_PROBE_7X3K">>, FALSE), PlainBody}
    \cup {ResponsesBody(t, o) : t \in ReplyTexts, o \in BOOLEAN}

\* The faults of the exchange: none, no response at all (connection refused,
\* or the 15 s deadline passed before the headers), or the body breaks off
\* after the headers (the deadline passes or the connection is reset).
ConnectFaults == {"connect", "timeout"}
BodyFaults == {"body-timeout", "body-reset"}

\* strings.Contains
Contains(s, substr) ==
    \E i \in 1..(Len(s) - Len(substr) + 1) : SubSeq(s, i, i + Len(substr) - 1) = substr

\* io.ReadAll(io.LimitReader(resp.Body, 2048)) with its error dropped: what
\* arrived is returned, a document that is cut short is no document any more.
ReadBody(body, fault) ==
    IF fault \in BodyFaults \/ body.oversize THEN CutBody ELSE body

\* extractChatCompletionReplyText
extractChatCompletionReplyText(respBody) ==
    IF respBody.format \notin {"chat", "responses"} THEN ""
    ELSE IF Len(respBody.choices) = 0 THEN ""
    ELSE respBody.choices[1]

\* extractResponsesReplyText
extractResponsesReplyText(respBody) ==
    IF respBody.format \notin {"chat", "responses"} THEN ""
    ELSE respBody.output_text

\* extractReplyText
extractReplyText(respBody, useResponses) ==
    IF useResponses THEN extractResponsesReplyText(respBody)
    ELSE extractChatCompletionReplyText(respBody)

\* DetectSystemRoleSupport: the provider is not OpenAI-compatible.
DetectSystemRoleSupport_NotOpenAI ==
    /\ ppc = "start"
    /\ probeConfig.Provider # "openai"
    /\ probeResult' = <<FALSE>>
    /\ ppc' = "done"
    /\ UNCHANGED <<probeConfig, probeFault, probeSent, probeStatus, probeBody>>
    /\ UNCHANGED notProbe

\* doProbeRequest: client.Do fails; DetectSystemRoleSupport returns false.
doProbeRequest_Fail(fault) ==
    /\ ppc = "start"
    /\ probeConfig.Provider = "openai"
    /\ probeFault' = fault
    /\ probeResult' = <<FALSE>>
    /\ ppc' = "done"
    /\ UNCHANGED <<probeConfig, probeSent, probeStatus, probeBody>>
    /\ UNCHANGED notProbe

\* doProbeRequest: the headers arrive, the body is read as far as it comes.
doProbeRequest(status, body, fault) ==
    /\ ppc = "start"
    /\ probeConfig.Provider = "openai"
    /\ probeFault' = fault
    /\ probeSent' = <<[status |-> status, body |-> body]>>
    /\ probeStatus' = status
    /\ probeBody' = ReadBody(body, fault)
    /\ ppc' = "replied"
    /\ UNCHANGED <<probeConfig, probeResult>>
    /\ UNCHANGED notProbe

\* DetectSystemRoleSupport after doProbeRequest returned without error.
DetectSystemRoleSupport ==
    /\ ppc = "replied"
    /\ probeResult' =
          IF probeStatus # 200 THEN <<TRUE>>
          ELSE IF Contains(extractReplyText(probeBody, probeConfig.UseResponses),
                           systemRoleProbeKeyword)
               THEN <<FALSE>>
               ELSE <<TRUE>>
    /\ ppc' = "done"
    /\ UNCHANGED <<probeConfig, probeFault, probeSent, probeStatus, probeBody>>
    /\ UNCHANGED notProbe

ProbeIdle ==
    /\ ppc = "idle"
    /\ probeConfig = [Provider |-> "", UseResponses |-> FALSE]
    /\ probeFault = "none"
    /\ probeSent = <<>>
    /\ probeStatus = 0
    /\ probeBody = CutBody
    /\ probeResult = <<>>

ProbeInit ==
    /\ ppc = "start"
    /\ probeConfig \in ProbeConfigs
    /\ probeFault = "none"
    /\ probeSent = <<>>
    /\ probeStatus = 0
    /\ probeBody = CutBody
    /\ probeResult = <<>>

ProbeStep ==
    \/ DetectSystemRoleSupport_NotOpenAI
    \/ \E fault \in ConnectFaults : doProbeRequest_Fail(fault)
    \/ \E status \in ProbeStatuses, body \in ProbeBodies, fault \in {"none"} \cup BodyFaults :
          doProbeRequest(status, body, fault)
    \/ DetectSystemRoleSupport

(***************************************************************************)
(* Memory manager: AppendRound on one topic                                *)
(* The manager (internal/memory) is modelled from its description; its     *)
(* configuration is the one NewApp builds.  A round is its number, a key   *)
(* fact is its position in the order of appending.                         *)
(***************************************************************************)
MaxAppends == 7       \* AppendRound calls on the topic
MaxNewFacts == 2      \* key facts extracted from one round

\* models.MemoryConfig values of the configuration file.
MemoryConfig(enabled, recent, facts, threshold) ==
    [Enabled |-> enabled, MaxRecentRounds |-> recent, MaxKeyFacts |-> facts,
     MaxSummaryLength |-> 300, CompressThreshold |-> threshold]
MemoryConfigs ==
    {MemoryConfig(TRUE, 3, 4, 5), MemoryConfig(TRUE, 1, 5, 3),
     MemoryConfig(TRUE, 4, 3, 3), MemoryConfig(FALSE, 3, 4, 5)}

\* NewApp: the memory.Config handed to memory.NewManagerWithConfig; no manager
\* when the memory is disabled.  The first mutant hands the verbatim window and
\* the cap of the facts over in each other's place, the second one hands the
\* summary length over as the cap of the facts.
NewManagerWithConfig_Swapped(c) ==
    IF ~c.Enabled THEN <<>>
    ELSE <<[MaxRecentRounds |-> c.MaxKeyFacts, MaxKeyFacts |-> c.MaxRecentRounds,
            MaxSummaryLength |-> c.MaxSummaryLength,
            CompressThreshold |-> c.CompressThreshold]>>
NewManagerWithConfig_CapFromSummary(c) ==
    IF ~c.Enabled THEN <<>>
    ELSE <<[MaxRecentRounds |-> c.MaxRecentRounds, MaxKeyFacts |-> c.MaxSummaryLength,
            MaxSummaryLength |-> c.MaxSummaryLength,
            CompressThreshold |-> c.CompressThreshold]>>
NewManagerWithConfig(c) ==
    IF ~c.Enabled THEN <<>>
    ELSE <<[MaxRecentRounds |-> c.MaxRecentRounds, MaxKeyFacts |-> c.MaxKeyFacts,
            MaxSummaryLength |-> c.MaxSummaryLength,
            CompressThreshold |-> c.CompressThreshold]>>

\* The last n elements of a list (the whole list if it is shorter).
LastN(s, n) == IF Len(s) <= n THEN s ELSE SubSeq(s, Len(s) - n + 1, Len(s))

\* Pruning the key facts to the cap, oldest evicted first.
PruneFacts(facts, cap) == LastN(facts, cap)

\* The rounds of the window that a compression merges: the oldest ones beyond
\* the keep-verbatim window, once the window is longer than the threshold.
RoundsToCompress(window, cfg) ==
    IF Len(window) > cfg.CompressThreshold /\ Len(window) > cfg.MaxRecentRounds
    THEN SubSeq(window, 1, Len(window) - cfg.MaxRecentRounds)
    ELSE <<>>

\* AppendRound: the round enters the verbatim window, its nfacts extracted
\* facts are appended and the list pruned; if a compression is due, one
\* summarization call is made (ok: it succeeds) and on success the merged
\* rounds leave the window.
AppendRound(nfacts, ok) ==
    /\ memManager # <<>>
    /\ nRounds < MaxAppends
    /\ nRounds' = nRounds + 1
    /\ LET cfg == memManager[1]
           window == Append(recentRounds, nRounds + 1)
           old == RoundsToCompress(window, cfg)
           fresh == [k \in 1..nfacts |-> factsAppended + k]
       IN  /\ factsAppended' = factsAppended + nfacts
           /\ keyFacts' = PruneFacts(keyFacts \o fresh, cfg.MaxKeyFacts)
           /\ IF old = <<>>
              THEN /\ ok
                   /\ recentRounds' = window
                   /\ UNCHANGED <<summaryOf, summarizeCalls>>
              ELSE /\ summarizeCalls' = Append(summarizeCalls,
                                               [at |-> nRounds + 1, covering |-> old, ok |-> ok])
                   /\ IF ok
                      THEN /\ summaryOf' = summaryOf \o old
                           /\ recentRounds' = LastN(window, cfg.MaxRecentRounds)
                      ELSE /\ recentRounds' = window
                           /\ UNCHANGED summaryOf
    /\ UNCHANGED <<memConfig, memManager>>
    /\ UNCHANGED notMem

\* A round completes while the memory is disabled: nothing is recorded.
AppendRound_NoManager ==
    /\ memManager = <<>>
    /\ nRounds < MaxAppends
    /\ nRounds' = nRounds + 1
    /\ UNCHANGED <<memConfig, memManager, keyFacts, recentRounds, summaryOf,
                   factsAppended, summarizeCalls>>
    /\ UNCHANGED notMem

MemIdle ==
    /\ memConfig = MemoryConfig(FALSE, 0, 0, 0)
    /\ memManager = <<>>
    /\ keyFacts = <<>>
    /\ recentRounds = <<>>
    /\ summaryOf = <<>>
    /\ nRounds = 0
    /\ factsAppended = 0
    /\ summarizeCalls = <<>>

MemInit ==
    /\ memConfig \in MemoryConfigs
    /\ memManager = NewManagerWithConfig(memConfig)
    /\ keyFacts = <<>>
    /\ recentRounds = <<>>
    /\ summaryOf = <<>>
    /\ nRounds = 0
    /\ factsAppended = 0
    /\ summarizeCalls = <<>>

MemStep ==
    \/ \E nfacts \in 0..MaxNewFacts, ok \in BOOLEAN : AppendRound(nfacts, ok)
    \/ AppendRound_NoManager

(***************************************************************************)
(* Base-URL normalization of the Anthropic model                           *)
(***************************************************************************)
MaxTailPieces == 3    \* pieces appended to the host part of an input URL
MaxChanges == 3       \* changes handed to saveConfig in one behaviour

OfficialAnthropicURL == "https://api.anthropic.com"
URLHosts == {"https://api.anthropic.com", "https://proxy.example.com/base"}
URLLeads == {"", " "}
URLPieces == {"/", "/v1", " "}

RECURSIVE ConcatAll(_)
ConcatAll(pieces) == IF pieces = <<>> THEN "" ELSE Head(pieces) \o ConcatAll(Tail(pieces))

URLTails == {ConcatAll(ps) : ps \in UNION {[1..n -> URLPieces] : n \in 0..MaxTailPieces}}
URLInputs ==
    {""} \cup {lead \o host \o tail : lead \in URLLeads, host \in URLHosts, tail \in URLTails}

\* unicode.IsSpace, as far as the inputs go.
SpaceChars == {" ", "\t", "\n", "\r"}

LastChar(s) == SubSeq(s, Len(s), Len(s))
FirstChar(s) == SubSeq(s, 1, 1)

\* strings.TrimRight(s, cutset)
RECURSIVE TrimRight(_, _)
TrimRight(s, cutset) ==
    IF s # "" /\ LastChar(s) \in cutset THEN TrimRight(SubSeq(s, 1, Len(s) - 1), cutset) ELSE s

\* strings.TrimLeft(s, cutset)
RECURSIVE TrimLeft(_, _)
TrimLeft(s, cutset) ==
    IF s # "" /\ FirstChar(s) \in cutset THEN TrimLeft(SubSeq(s, 2, Len(s)), cutset) ELSE s

\* strings.TrimSpace
TrimSpace(s) == TrimLeft(TrimRight(s, SpaceChars), SpaceChars)

\* strings.HasSuffix, strings.TrimSuffix
HasSuffix(s, suffix) ==
    Len(s) >= Len(suffix) /\ SubSeq(s, Len(s) - Len(suffix) + 1, Len(s)) = suffix
TrimSuffix(s, suffix) ==
    IF HasSuffix(s, suffix) THEN SubSeq(s, 1, Len(s) - Len(suffix)) ELSE s

\* anthropic.normalizeBaseURL
normalizeBaseURL(baseURL) == TrimSuffix(TrimSpace(TrimRight(baseURL, {"/"})), "/v1")

\* adk.normalizeAnthropicBaseURL
normalizeAnthropicBaseURL(baseURL) ==
    IF baseURL = "" THEN OfficialAnthropicURL
    ELSE TrimSuffix(TrimSpace(TrimRight(baseURL, {"/"})), "/v1")

\* createAnthropicModel: the configured URL is normalized by the factory.
createAnthropicModel ==
    /\ upc = "start"
    /\ factoryURL' = normalizeAnthropicBaseURL(urlInput)
    /\ upc' = "factory"
    /\ UNCHANGED <<urlInput, modelURL>>
    /\ UNCHANGED notURL

\* NewAnthropicModel: the URL it is given is normalized once more.
NewAnthropicModel ==
    /\ upc = "factory"
    /\ modelURL' = normalizeBaseURL(factoryURL)
    /\ upc' = "done"
    /\ UNCHANGED <<urlInput, factoryURL>>
    /\ UNCHANGED notURL

URLIdle ==
    /\ upc = "idle"
    /\ urlInput = ""
    /\ factoryURL = ""
    /\ modelURL = ""

URLInit ==
    /\ upc = "start"
    /\ urlInput \in URLInputs
    /\ factoryURL = ""
    /\ modelURL = ""

URLStep ==
    \/ createAnthropicModel
    \/ NewAnthropicModel

(***************************************************************************)
(* The Anthropic stream decoder on the well-formed event stream of a       *)
(* message: message_start, then for block i a content_block_start at index *)
(* i followed by its deltas in order, then message_delta with the stop     *)
(* reason, then the end of the stream.                                     *)
(***************************************************************************)
ReplayBlocks == BodyBlocks \cup {TextBlock("ab"), ThinkingBlock("ba")}
ReplayMessages ==
    {[Content |-> c, StopReason |-> sr, Usage |-> [InputTokens |-> 3, OutputTokens |-> 1]] :
        c \in UNION {[1..n -> ReplayBlocks] : n \in 0..MaxBlocks}, sr \in StopReasons}

\* What the decoder has accumulated of a block.
BlockSoFar(bs) ==
    CASE bs.blockType = "text" -> bs.text
      [] bs.blockType = "thinking" -> bs.thinking
      [] OTHER -> bs.toolArgs

DeltaTypeOf(type) ==
    CASE type = "text" -> "text_delta"
      [] type = "thinking" -> "thinking_delta"
      [] OTHER -> "input_json_delta"

ReplayStarted == Cardinality(DOMAIN blocks)
ReplayDelivered ==
    \A i \in DOMAIN blocks : BlockSoFar(blocks[i]) = BlockTarget(replayMsg[1].Content[i + 1])

\* What is still to be sent of the block started last.
ReplayRemaining ==
    LET target == BlockTarget(replayMsg[1].Content[ReplayStarted])
        sofar == BlockSoFar(blocks[ReplayStarted - 1])
    IN  SubSeq(target, Len(sofar) + 1, Len(target))

Replay_MessageStart ==
    /\ usage = <<>>
    /\ handleSSEEvent_MessageStart(replayMsg[1].Usage)

Replay_ContentBlockStart ==
    /\ usage # <<>>
    /\ stopReason = ""
    /\ ReplayDelivered
    /\ ReplayStarted < Len(replayMsg[1].Content)
    /\ handleSSEEvent_ContentBlockStart(ReplayStarted, replayMsg[1].Content[ReplayStarted + 1].Type)

\* The next n characters of the current block arrive as one delta.
Replay_Delta(n) ==
    /\ ReplayStarted > 0
    /\ stopReason = ""
    /\ n \in 1..Len(ReplayRemaining)
    /\ handleDelta(ReplayStarted - 1, DeltaTypeOf(blocks[ReplayStarted - 1].blockType),
                   SubSeq(ReplayRemaining, 1, n), TRUE)

Replay_MessageDelta ==
    /\ usage # <<>>
    /\ stopReason = ""
    /\ ReplayDelivered
    /\ ReplayStarted = Len(replayMsg[1].Content)
    /\ handleSSEEvent_MessageDelta(replayMsg[1].StopReason, <<>>)

Replay_End(iteration) ==
    /\ stopReason # ""
    /\ processStream_End("eof", iteration)

ReplayIdle == replayMsg = <<>>

\* The response headers (200) have arrived and the stream is about to be read.
ReplayInit ==
    /\ replayMsg \in {<<m>> : m \in ReplayMessages}
    /\ adapter = "anthropic"
    /\ streaming = TRUE
    /\ gpc = "reading"
    /\ httpStatus = StatusOK
    /\ yielded = <<>>
    /\ blocks = <<>>
    /\ stopReason = ""
    /\ usage = <<>>
    /\ textContent = ""
    /\ thoughtContent = ""
    /\ toolCallsMap = <<>>
    /\ toolCallOrder = <<>>
    /\ thinkInside = FALSE
    /\ thinkPending = ""
    /\ nEvents = 0
    /\ errorEventAt = -1
    /\ cancelAt = -1
    /\ blockArrival = <<>>
    /\ firstSeen = <<>>
    /\ usageSeen = [start |-> -1, delta |-> -1]
    /\ deltaSeen = <<>>
    /\ stopAt = -1

ReplayStep ==
    \/ Replay_MessageStart
    \/ Replay_ContentBlockStart
    \/ \E n \in 1..(IF ReplayStarted > 0 THEN Len(ReplayRemaining) ELSE 0) : Replay_Delta(n)
    \/ Replay_MessageDelta
    \/ \E iteration \in MapIterationOrders(DOMAIN blocks) : Replay_End(iteration)

(***************************************************************************)
(* internal/services/strategy_service.go and the strategy and agent API of *)
(* app.go.  A mutation of the store is one critical section of s.mu; saveOk *)
(* says whether saveNoLock could write the store file.                     *)
(***************************************************************************)
\* The ids of the strategies that are added and updated, and an id that no
\* strategy ever has.
StrategyIDs == {"default", "s1"}
UnknownID == "ghost"
StoreAgentIDs == {"fundamental", "technical"}

\* models.StrategyAgent and models.AgentConfig (the fields the API copies and
\* the model-binding id).
StrategyAgent(id, enabled, aiConfigID) == [ID |-> id, Enabled |-> enabled, AIConfigID |-> aiConfigID]
AgentConfigValues ==
    {StrategyAgent("fundamental", TRUE, "c1"), StrategyAgent("technical", TRUE, ""),
     StrategyAgent("technical", TRUE, "c1"), StrategyAgent("technical", FALSE, "c1")}

\* models.Strategy
Strategy(id, isBuiltin, agents) == [ID |-> id, IsBuiltin |-> isBuiltin, Agents |-> agents]
StrategyValues ==
    {Strategy(id, FALSE, <<>>) : id \in StrategyIDs}
        \cup {Strategy(id, TRUE, <<StrategyAgent("technical", TRUE, "c1")>>) : id \in StrategyIDs}

\* builtinStrategies
builtinStrategies == <<Strategy("default", TRUE, <<StrategyAgent("fundamental", TRUE, "")>>)>>

\* initDefault
initDefault == [ActiveID |-> "default", Strategies |-> builtinStrategies]

\* The index of the first strategy with the id (0: none).
StrategyIndex(s, id) ==
    LET hits == {i \in 1..Len(s.Strategies) : s.Strategies[i].ID = id}
    IN  IF hits = {} THEN 0 ELSE CHOOSE i \in hits : \A j \in hits : i <= j

AgentIndex(agents, id) ==
    LET hits == {j \in 1..Len(agents) : agents[j].ID = id}
    IN  IF hits = {} THEN 0 ELSE CHOOSE j \in hits : \A k \in hits : j <= k

RemoveAt(seq, i) == SubSeq(seq, 1, i - 1) \o SubSeq(seq, i + 1, Len(seq))

\* The result of a mutation: the store after it and whether it returned an error.
Result(s, err) == [store |-> s, err |-> err]

\* StrategyService.SetActiveStrategy
SetActiveStrategy(s, id, saveOk) ==
    IF StrategyIndex(s, id) = 0 THEN Result(s, TRUE)
    ELSE Result([s EXCEPT !.ActiveID = id], ~saveOk)

\* StrategyService.AddStrategy
AddStrategy(s, strategy, saveOk) ==
    IF StrategyIndex(s, strategy.ID) # 0 THEN Result(s, TRUE)
    ELSE Result([s EXCEPT !.Strategies = Append(@, strategy)], ~saveOk)

\* StrategyService.UpdateStrategy: a built-in strategy stays built-in.
UpdateStrategy(s, strategy, saveOk) ==
    LET i == StrategyIndex(s, strategy.ID) IN
    IF i = 0 THEN Result(s, TRUE)
    ELSE Result([s EXCEPT !.Strategies[i] =
                    IF @.IsBuiltin THEN [strategy EXCEPT !.IsBuiltin = TRUE] ELSE strategy],
                ~saveOk)

\* StrategyService.DeleteStrategy: neither a built-in strategy nor the active
\* one is deleted.  The variant deletes the active strategy too.
DeleteStrategy_AlsoActive(s, id, saveOk) ==
    LET i == StrategyIndex(s, id) IN
    IF i = 0 THEN Result(s, TRUE)
    ELSE IF s.Strategies[i].IsBuiltin THEN Result(s, TRUE)
    ELSE Result([s EXCEPT !.Strategies = RemoveAt(@, i)], ~saveOk)
DeleteStrategy(s, id, saveOk) ==
    LET i == StrategyIndex(s, id) IN
    IF i = 0 THEN Result(s, TRUE)
    ELSE IF s.Strategies[i].IsBuiltin THEN Result(s, TRUE)
    ELSE IF s.ActiveID = id THEN Result(s, TRUE)
    ELSE Result([s EXCEPT !.Strategies = RemoveAt(@, i)], ~saveOk)

\* StrategyService.AddAgentToActiveStrategy
AddAgentToActiveStrategy(s, sa, saveOk) ==
    LET i == StrategyIndex(s, s.ActiveID) IN
    IF i = 0 THEN Result(s, TRUE)
    ELSE IF AgentIndex(s.Strategies[i].Agents, sa.ID) # 0 THEN Result(s, TRUE)
    ELSE Result([s EXCEPT !.Strategies[i].Agents = Append(@, sa)], ~saveOk)

\* StrategyService.UpdateAgentInActiveStrategy
UpdateAgentInActiveStrategy(s, sa, saveOk) ==
    LET i == StrategyIndex(s, s.ActiveID) IN
    IF i = 0 THEN Result(s, TRUE)
    ELSE LET j == AgentIndex(s.Strategies[i].Agents, sa.ID) IN
         IF j = 0 THEN Result(s, TRUE)
         ELSE Result([s EXCEPT !.Strategies[i].Agents[j] = sa], ~saveOk)

\* StrategyService.DeleteAgentFromActiveStrategy
DeleteAgentFromActiveStrategy(s, agentID, saveOk) ==
    LET i == StrategyIndex(s, s.ActiveID) IN
    IF i = 0 THEN Result(s, TRUE)
    ELSE LET j == AgentIndex(s.Strategies[i].Agents, agentID) IN
         IF j = 0 THEN Result(s, TRUE)
         ELSE Result([s EXCEPT !.Strategies[i].Agents = RemoveAt(@, j)], ~saveOk)

\* StrategyService.getAgentConfigsFromStrategy: every field of the agents of
\* the active strategy is copied, the model-binding id included.
getAgentConfigsFromStrategy(s) ==
    LET i == StrategyIndex(s, s.ActiveID) IN
    IF i = 0 THEN <<>>
    ELSE [k \in 1..Len(s.Strategies[i].Agents) |->
            StrategyAgent(s.Strategies[i].Agents[k].ID, s.Strategies[i].Agents[k].Enabled,
                          s.Strategies[i].Agents[k].AIConfigID)]

\* App.GetAgentConfigs
GetAgentConfigs(s) == GetEnabledAgents(getAgentConfigsFromStrategy(s))

\* App.AddAgentConfig and App.UpdateAgentConfig build the models.StrategyAgent
\* from the configuration: AIConfigID is not among the fields they copy.
ToStrategyAgent(config) == StrategyAgent(config.ID, config.Enabled, "")

\* The calls of the API: the store after the call and the record of the call.
App_SetActiveStrategy(id, saveOk) ==
    /\ LET result == SetActiveStrategy(store, id, saveOk)
       IN  /\ store' = result.store
           /\ lastMutation' = <<[op |-> "SetActiveStrategy", arg |-> id, err |-> result.err]>>
    /\ UNCHANGED notStrategy

App_AddStrategy(strategy, saveOk) ==
    /\ LET result == AddStrategy(store, strategy, saveOk)
       IN  /\ store' = result.store
           /\ lastMutation' = <<[op |-> "AddStrategy", arg |-> strategy, err |-> result.err]>>
    /\ UNCHANGED notStrategy

App_UpdateStrategy(strategy, saveOk) ==
    /\ LET result == UpdateStrategy(store, strategy, saveOk)
       IN  /\ store' = result.store
           /\ lastMutation' = <<[op |-> "UpdateStrategy", arg |-> strategy, err |-> result.err]>>
    /\ UNCHANGED notStrategy

App_DeleteStrategy(id, saveOk) ==
    /\ LET result == DeleteStrategy(store, id, saveOk)
       IN  /\ store' = result.store
           /\ lastMutation' = <<[op |-> "DeleteStrategy", arg |-> id, err |-> result.err]>>
    /\ UNCHANGED notStrategy

AddAgentConfig(config, saveOk) ==
    /\ LET result == AddAgentToActiveStrategy(store, ToStrategyAgent(config), saveOk)
       IN  /\ store' = result.store
           /\ lastMutation' = <<[op |-> "AddAgentConfig", arg |-> config, err |-> result.err]>>
    /\ UNCHANGED notStrategy

UpdateAgentConfig(config, saveOk) ==
    /\ LET result == UpdateAgentInActiveStrategy(store, ToStrategyAgent(config), saveOk)
       IN  /\ store' = result.store
           /\ lastMutation' = <<[op |-> "UpdateAgentConfig", arg |-> config, err |-> result.err]>>
    /\ UNCHANGED notStrategy

DeleteAgentConfig(id, saveOk) ==
    /\ LET result == DeleteAgentFromActiveStrategy(store, id, saveOk)
       IN  /\ store' = result.store
           /\ lastMutation' = <<[op |-> "DeleteAgentConfig", arg |-> id, err |-> result.err]>>
    /\ UNCHANGED notStrategy

StrategyIdle ==
    /\ store = [ActiveID |-> "", Strategies |-> <<>>]
    /\ lastMutation = <<>>

\* NewStrategyService without a store file: load calls initDefault.
StrategyInit ==
    /\ store = initDefault
    /\ lastMutation = <<>>

StrategyStep ==
    \/ \E id \in StrategyIDs \cup {UnknownID}, saveOk \in BOOLEAN : App_SetActiveStrategy(id, saveOk)
    \/ \E strategy \in StrategyValues, saveOk \in BOOLEAN : App_AddStrategy(strategy, saveOk)
    \/ \E strategy \in StrategyValues, saveOk \in BOOLEAN : App_UpdateStrategy(strategy, saveOk)
    \/ \E id \in StrategyIDs \cup {UnknownID}, saveOk \in BOOLEAN : App_DeleteStrategy(id, saveOk)
    \/ \E config \in AgentConfigValues, saveOk \in BOOLEAN : AddAgentConfig(config, saveOk)
    \/ \E config \in AgentConfigValues, saveOk \in BOOLEAN : UpdateAgentConfig(config, saveOk)
    \/ \E id \in StoreAgentIDs, saveOk \in BOOLEAN : DeleteAgentConfig(id, saveOk)

(***************************************************************************)
(* app.go: UpdateConfig / DeleteMCPServer / getAIConfigByID                *)
(***************************************************************************)
ModelIDs == {"c1", "c2"}
DefaultAIIDs == {"", "c2"}

\* A Go slice of models.MCPServerConfig: the nil slice and the empty slice
\* are different values (config.MCPServers != nil).
NilSlice == [IsNil |-> TRUE, Items |-> <<>>]
Slice(items) == [IsNil |-> FALSE, Items |-> items]
MCPServerConfig(id, enabled) == [ID |-> id, Enabled |-> enabled]
ServerSlices ==
    {NilSlice,
     Slice(<<>>),
     Slice(<<MCPServerConfig("mcp-1", TRUE), MCPServerConfig("mcp-2", FALSE)>>),
     Slice(<<MCPServerConfig("mcp-2", TRUE)>>)}

AIConfigLists ==
    {<<>>,
     <<AIConfig("c1", FALSE)>>,
     <<AIConfig("c1", TRUE), AIConfig("c2", FALSE)>>,
     <<AIConfig("c1", FALSE), AIConfig("c2", FALSE)>>}

IDsOf(aiConfigs) == {aiConfigs[i].ID : i \in 1..Len(aiConfigs)}

\* models.AppConfig values; the memory and moderator ids are empty or name a
\* listed configuration.
ConfigValues ==
    UNION {[AIConfigs : {a}, DefaultAIID : DefaultAIIDs, MCPServers : ServerSlices,
            MemoryAIConfigID : {""} \cup IDsOf(a), ModeratorAIID : {""} \cup IDsOf(a)]
           : a \in AIConfigLists}

\* The configuration of a first start: nothing configured.
DefaultConfig ==
    [AIConfigs |-> <<>>, DefaultAIID |-> "", MCPServers |-> NilSlice,
     MemoryAIConfigID |-> "", ModeratorAIID |-> ""]

\* Manager.LoadConfigs: the ids the rebuilt map holds, the enabled servers.
LoadedConfigs(servers) ==
    {servers.Items[i].ID : i \in {j \in 1..Len(servers.Items) : servers.Items[j].Enabled}}

\* The loop of UpdateConfig that looks id up in config.AIConfigs and hands
\* the hit to the meeting service's setter; held is the binding set before.
BindAIConfig(config, id, held) ==
    IF id # "" /\ id \in IDsOf(config.AIConfigs) THEN <<id>> ELSE held

\* App.UpdateConfig
UpdateConfig(config, saveOk) ==
    /\ IF ~saveOk
       THEN /\ lastAppCall' = "UpdateConfig:error"
            /\ UNCHANGED <<savedConfig, managerConfigs, memoryAI, moderatorAI>>
       ELSE /\ savedConfig' = config
            /\ managerConfigs' = IF ~config.MCPServers.IsNil
                                 THEN LoadedConfigs(config.MCPServers)
                                 ELSE managerConfigs
            /\ memoryAI' = BindAIConfig(config, config.MemoryAIConfigID, memoryAI)
            /\ moderatorAI' = BindAIConfig(config, config.ModeratorAIID, moderatorAI)
            /\ lastAppCall' = "UpdateConfig:success"
    /\ resolved' = <<>>
    /\ UNCHANGED notCfg

\* The slice DeleteMCPServer builds: nil when no server is left.
RemoveServer(servers, id) ==
    LET kept == SelectSeq(servers.Items, LAMBDA s : s.ID # id)
    IN  IF kept = <<>> THEN NilSlice ELSE Slice(kept)

\* App.DeleteMCPServer: the configuration is changed through the pointer
\* GetConfig returns; when the save fails the in-memory configuration may
\* or may not keep the change.
DeleteMCPServer(id, saveOk) ==
    LET newServers == RemoveServer(savedConfig.MCPServers, id)
        config == [savedConfig EXCEPT !.MCPServers = newServers]
    IN  /\ IF ~saveOk
           THEN /\ savedConfig' \in {savedConfig, config}
                /\ lastAppCall' = "DeleteMCPServer:error"
                /\ UNCHANGED managerConfigs
           ELSE /\ savedConfig' = config
                /\ managerConfigs' = LoadedConfigs(newServers)
                /\ lastAppCall' = "DeleteMCPServer:success"
        /\ resolved' = <<>>
        /\ UNCHANGED <<memoryAI, moderatorAI>>
        /\ UNCHANGED notCfg

\* App.getAIConfigByID: the index of the returned configuration, None for nil.
getAIConfigByID(config, aiConfigID) ==
    LET found == {i \in 1..Len(config.AIConfigs) : config.AIConfigs[i].ID = aiConfigID}
    IN  IF aiConfigID # "" /\ found # {}
        THEN CHOOSE i \in found : \A j \in found : i <= j
        ELSE getDefaultAIConfig(config)

\* A caller resolving a model binding against the saved configuration.
ResolveAIConfig(aiConfigID) ==
    /\ resolved' = <<[id |-> aiConfigID, result |-> getAIConfigByID(savedConfig, aiConfigID)]>>
    /\ UNCHANGED <<savedConfig, managerConfigs, memoryAI, moderatorAI, lastAppCall>>
    /\ UNCHANGED notCfg

CfgIdle ==
    /\ savedConfig = DefaultConfig
    /\ managerConfigs = {}
    /\ memoryAI = <<>>
    /\ moderatorAI = <<>>
    /\ lastAppCall = "none"
    /\ resolved = <<>>

\* NewApp on a first start: LoadConfigs of no servers, no binding set.
CfgInit == CfgIdle

CfgStep ==
    \/ \E config \in ConfigValues, saveOk \in BOOLEAN : UpdateConfig(config, saveOk)
    \/ \E id \in ServerIDs, saveOk \in BOOLEAN : DeleteMCPServer(id, saveOk)

\* getAIConfigByID applied to every saved configuration.
ResolveInit ==
    /\ savedConfig \in ConfigValues
    /\ managerConfigs = {}
    /\ memoryAI = <<>>
    /\ moderatorAI = <<>>
    /\ lastAppCall = "none"
    /\ resolved = <<>>

ResolveStep ==
    \E aiConfigID \in {""} \cup ModelIDs \cup {UnknownID} : ResolveAIConfig(aiConfigID)

(***************************************************************************)
(* SettingsDialog: saveConfig / doSave                                     *)
(***************************************************************************)
\* Every change is one distinct key of the configuration, so that merging
\* two partial updates is the union of their keys.  Each saveConfig call sets
\* the timer once, so no more doSave invocations start than changes are made.
Changes == 1..MaxChanges

\* saveConfig: the change is merged into a new pending object, the timer is
\* cleared and set again.
saveConfig(change) ==
    /\ change \notin handed
    /\ handed' = handed \cup {change}
    /\ pendingUpdates' = pendingUpdates \cup {change}
    /\ saveTimer' = TRUE
    /\ UNCHANGED <<doSaves, backendConfig, included, rpcFailed>>
    /\ UNCHANGED notSave

\* The timeout callback: doSave runs up to its first await (it returns at
\* once when nothing is pending) and the timer reference is set to null.
\* updates is the object pendingUpdatesRef.current refers to at this moment.
doSave ==
    /\ saveTimer
    /\ saveTimer' = FALSE
    /\ doSaves' = IF pendingUpdates = {} THEN doSaves
                  ELSE Append(doSaves, [pc |-> "getConfig", updates |-> pendingUpdates,
                                        currentConfig |-> {}])
    /\ UNCHANGED <<pendingUpdates, backendConfig, handed, included, rpcFailed>>
    /\ UNCHANGED notSave

\* doSave resumed after `await getConfig()`: on success updateConfig is
\* called with the fetched configuration overlaid by the captured updates;
\* a rejection goes to the catch block.
doSave_getConfig(i, ok) ==
    /\ i <= Len(doSaves)
    /\ doSaves[i].pc = "getConfig"
    /\ doSaves' = [doSaves EXCEPT ![i] =
                      IF ok THEN [@ EXCEPT !.pc = "updateConfig", !.currentConfig = backendConfig]
                      ELSE [@ EXCEPT !.pc = "failed"]]
    /\ rpcFailed' = (rpcFailed \/ ~ok)
    /\ UNCHANGED <<pendingUpdates, saveTimer, backendConfig, handed, included>>
    /\ UNCHANGED notSave

\* doSave resumed after `await updateConfig(...)`: the backend stores the
\* configuration it was sent, and on success the pending set is cleared.
doSave_updateConfig(i, ok) ==
    /\ i <= Len(doSaves)
    /\ doSaves[i].pc = "updateConfig"
    /\ IF ok
       THEN /\ backendConfig' = doSaves[i].currentConfig \cup doSaves[i].updates
            /\ included' = included \cup doSaves[i].updates
            /\ pendingUpdates' = {}
            /\ doSaves' = [doSaves EXCEPT ![i].pc = "saved"]
            /\ UNCHANGED rpcFailed
       ELSE /\ doSaves' = [doSaves EXCEPT ![i].pc = "failed"]
            /\ rpcFailed' = TRUE
            /\ UNCHANGED <<backendConfig, included, pendingUpdates>>
    /\ UNCHANGED <<saveTimer, handed>>
    /\ UNCHANGED notSave

SaveIdle ==
    /\ pendingUpdates = {}
    /\ saveTimer = FALSE
    /\ doSaves = <<>>
    /\ backendConfig = {}
    /\ handed = {}
    /\ included = {}
    /\ rpcFailed = FALSE

\* The dialog after mounting: nothing pending, no timer.
SaveInit == SaveIdle

SaveStep ==
    \/ \E change \in Changes : saveConfig(change)
    \/ doSave
    \/ \E i \in Changes, ok \in BOOLEAN : doSave_getConfig(i, ok)
    \/ \E i \in Changes, ok \in BOOLEAN : doSave_updateConfig(i, ok)

\* The event loop runs a due timeout callback, and every pending call to the
\* backend settles.
SaveFairness ==
    /\ WF_vars(doSave)
    /\ \A i \in Changes :
          /\ WF_vars(\E ok \in BOOLEAN : doSave_getConfig(i, ok))
          /\ WF_vars(\E ok \in BOOLEAN : doSave_updateConfig(i, ok))

(***************************************************************************)
(* Specifications                                                          *)
(***************************************************************************)
InitMeeting == MeetingIdle /\ StreamIdle /\ ConvIdle /\ ToolsIdle /\ RoundIdle /\ MgrIdle /\ WlIdle /\ ProbeIdle /\ MemIdle /\ URLIdle /\ ReplayIdle /\ StrategyIdle /\ CfgIdle /\ SaveIdle
NextMeeting == MeetingStep
SpecMeeting == InitMeeting /\ [][NextMeeting]_vars

InitStream == MeetingIdle /\ StreamInit /\ ConvIdle /\ ToolsIdle /\ RoundIdle /\ MgrIdle /\ WlIdle /\ ProbeIdle /\ MemIdle /\ URLIdle /\ ReplayIdle /\ StrategyIdle /\ CfgIdle /\ SaveIdle
NextStream == StreamStep
SpecStream == InitStream /\ [][NextStream]_vars

InitConvert == MeetingIdle /\ StreamIdle /\ ConvInit /\ ToolsIdle /\ RoundIdle /\ MgrIdle /\ WlIdle /\ ProbeIdle /\ MemIdle /\ URLIdle /\ ReplayIdle /\ StrategyIdle /\ CfgIdle /\ SaveIdle
NextConvert == ConvStep
SpecConvert == InitConvert /\ [][NextConvert]_vars

InitTools == MeetingIdle /\ StreamIdle /\ ConvIdle /\ ToolsIdle /\ RoundIdle /\ MgrIdle /\ WlIdle /\ ProbeIdle /\ MemIdle /\ URLIdle /\ ReplayIdle /\ StrategyIdle /\ CfgIdle /\ SaveIdle
NextTools == ToolsStep
SpecTools == InitTools /\ [][NextTools]_vars

InitRound == MeetingIdle /\ StreamIdle /\ ConvIdle /\ ToolsIdle /\ RoundInit /\ MgrIdle /\ WlIdle /\ ProbeIdle /\ MemIdle /\ URLIdle /\ ReplayIdle /\ StrategyIdle /\ CfgIdle /\ SaveIdle
NextRound == RoundStep
SpecRound == InitRound /\ [][NextRound]_vars

InitManager == MeetingIdle /\ StreamIdle /\ ConvIdle /\ ToolsIdle /\ RoundIdle /\ MgrIdle /\ WlIdle /\ ProbeIdle /\ MemIdle /\ URLIdle /\ ReplayIdle /\ StrategyIdle /\ CfgIdle /\ SaveIdle
NextManager == MgrStep
SpecManager == InitManager /\ [][NextManager]_vars

InitWatchlist == MeetingIdle /\ StreamIdle /\ ConvIdle /\ ToolsIdle /\ RoundIdle /\ MgrIdle /\ WlIdle /\ ProbeIdle /\ MemIdle /\ URLIdle /\ ReplayIdle /\ StrategyIdle /\ CfgIdle /\ SaveIdle
NextWatchlist == WlStep
SpecWatchlist == InitWatchlist /\ [][NextWatchlist]_vars

InitProbe == MeetingIdle /\ StreamIdle /\ ConvIdle /\ ToolsIdle /\ RoundIdle /\ MgrIdle /\ WlIdle /\ ProbeInit /\ MemIdle /\ URLIdle /\ ReplayIdle /\ StrategyIdle /\ CfgIdle /\ SaveIdle
NextProbe == ProbeStep
SpecProbe == InitProbe /\ [][NextProbe]_vars

InitMemory == MeetingIdle /\ StreamIdle /\ ConvIdle /\ ToolsIdle /\ RoundIdle /\ MgrIdle /\ WlIdle /\ ProbeIdle /\ MemInit /\ URLIdle /\ ReplayIdle /\ StrategyIdle /\ CfgIdle /\ SaveIdle
NextMemory == MemStep
SpecMemory == InitMemory /\ [][NextMemory]_vars

InitURL == MeetingIdle /\ StreamIdle /\ ConvIdle /\ ToolsIdle /\ RoundIdle /\ MgrIdle /\ WlIdle /\ ProbeIdle /\ MemIdle /\ URLInit /\ ReplayIdle /\ StrategyIdle /\ CfgIdle /\ SaveIdle
NextURL == URLStep
SpecURL == InitURL /\ [][NextURL]_vars

InitReplay == MeetingIdle /\ ConvIdle /\ ToolsIdle /\ RoundIdle /\ MgrIdle /\ WlIdle /\ ProbeIdle /\ MemIdle /\ URLIdle /\ ReplayInit /\ StrategyIdle /\ CfgIdle /\ SaveIdle
NextReplay == ReplayStep
SpecReplay == InitReplay /\ [][NextReplay]_vars

InitStrategy == MeetingIdle /\ StreamIdle /\ ConvIdle /\ ToolsIdle /\ RoundIdle /\ MgrIdle /\ WlIdle /\ ProbeIdle /\ MemIdle /\ URLIdle /\ ReplayIdle /\ StrategyInit /\ CfgIdle /\ SaveIdle
NextStrategy == StrategyStep
SpecStrategy == InitStrategy /\ [][NextStrategy]_vars

InitConfig == MeetingIdle /\ StreamIdle /\ ConvIdle /\ ToolsIdle /\ RoundIdle /\ MgrIdle /\ WlIdle /\ ProbeIdle /\ MemIdle /\ URLIdle /\ ReplayIdle /\ StrategyIdle /\ CfgInit /\ SaveIdle
NextConfig == CfgStep
SpecConfig == InitConfig /\ [][NextConfig]_vars

InitResolve == MeetingIdle /\ StreamIdle /\ ConvIdle /\ ToolsIdle /\ RoundIdle /\ MgrIdle /\ WlIdle /\ ProbeIdle /\ MemIdle /\ URLIdle /\ ReplayIdle /\ StrategyIdle /\ ResolveInit /\ SaveIdle
NextResolve == ResolveStep
SpecResolve == InitResolve /\ [][NextResolve]_vars

InitSave == MeetingIdle /\ StreamIdle /\ ConvIdle /\ ToolsIdle /\ RoundIdle /\ MgrIdle /\ WlIdle /\ ProbeIdle /\ MemIdle /\ URLIdle /\ ReplayIdle /\ StrategyIdle /\ CfgIdle /\ SaveInit
NextSave == SaveStep
SpecSave == InitSave /\ [][NextSave]_vars /\ SaveFairness

(***************************************************************************)
(* Claims about the meeting registry                                       *)
(***************************************************************************)

\* C1: at most one meeting of a topic is Running (started, not returned,
\* token not triggered) at any time.
C1_AtMostOneRunning ==
    \A m, n \in Meetings :
        (m # n /\ topicOf[m] = topicOf[n] /\ Running(m)) => ~Running(n)

\* C2: a meeting that was Running when a later query of its topic entered has
\* its token triggered before the later meeting issues a provider call.
C2_SupersededCancelledBeforeProviderCall ==
    [][\A n \in Meetings :
         (providerCalls[n] = 0 /\ providerCalls'[n] = 1)
             => \A m \in runningAtCall[n] : ctxDone[m]]_vars

\* A meeting can still append to the transcript of its topic.
CanAppend(m) ==
    \/ pc[m] = "registered"
    \/ pc[m] = "running" /\ ~ctxDone[m]

\* C3: never two meetings of one topic that can both still append to the
\* topic's transcript.
C3_SingleWriter ==
    \A m, n \in Meetings :
        (m # n /\ topicOf[m] = topicOf[n] /\ CanAppend(m)) => ~CanAppend(n)


\* C29: whenever a meeting of a topic is Running (started, not returned, token
\* not triggered), the cancel registry maps the topic to that meeting, so that
\* CancelMeeting(topic) triggers its token; the clean-up of a returning
\* meeting never removes the entry of a later meeting of the topic.
C29_RunningMeetingIsRegistered ==
    \A m \in Meetings :
        Running(m) => meetingCancels[topicOf[m]] = m

\* The second half of C29 on its own: the step in which a meeting returns
\* leaves every registry entry that is not its own as it was.
CleanupRemovesOwnEntryOnly ==
    [][\A m \in Meetings :
         (pc[m] = "running" /\ pc'[m] = "returned")
             => \A t \in Topics :
                    meetingCancels[t] # m => meetingCancels'[t] = meetingCancels[t]]_vars

(***************************************************************************)
(* Claims about the model adapters                                         *)
(***************************************************************************)
AllPartial(y) == \A i \in 1..Len(y) : y[i].kind = "partial" /\ y[i].Partial /\ ~y[i].TurnComplete

Terminated(y) ==
    /\ Len(y) >= 1
    /\ AllPartial(SubSeq(y, 1, Len(y) - 1))
    /\ \/ y[Len(y)].kind = "error"
       \/ y[Len(y)].kind = "final" /\ ~y[Len(y)].Partial /\ y[Len(y)].TurnComplete

\* C4 (as claimed): every finished streamed call whose consumer kept
\* consuming has yielded partial increments followed by exactly one terminal
\* aggregate or error.
C4_StreamEndsWithTerminalOrError ==
    (streaming /\ stopAt = -1 /\ gpc = "done") => Terminated(yielded)

\* C4 (amended): a streamed call whose consumer keeps consuming yields only
\* partial increments while it runs; when it has finished, the sequence is partial increments followed by
\* exactly one terminal aggregate or error, except that an Anthropic call
\* cancelled while its body is read ends after its partial increments.
C4_StreamShape ==
    (streaming /\ stopAt = -1) =>
        /\ gpc # "done" => AllPartial(yielded)
        /\ gpc = "done" =>
              \/ Terminated(yielded)
              \/ adapter = "anthropic" /\ cancelAt # -1 /\ AllPartial(yielded)

C4_Witness ==
    /\ streaming
    /\ gpc = "done"
    /\ Len(yielded) >= 3
    /\ yielded[1].kind = "partial"
    /\ yielded[Len(yielded)].kind = "final"

\* C5: the parts of an Anthropic terminal aggregate are in ascending
\* content-block index order, each the part of its block.
C5_PartsInIndexOrder ==
    \A k \in 1..Len(yielded) :
        (adapter = "anthropic" /\ streaming /\ yielded[k].kind = "final") =>
            LET o == yielded[k].order
                p == yielded[k].parts
            IN /\ Len(o) = Len(p)
               /\ \A i, j \in 1..Len(o) : i < j => o[i] < o[j]
               /\ \A i \in 1..Len(o) : <<p[i]>> = BlockParts(blocks[o[i]])
               /\ \A idx \in DOMAIN blocks :
                     BlockParts(blocks[idx]) # <<>> => \E i \in 1..Len(o) : o[i] = idx

\* Two blocks that started in descending index order both appear in the
\* terminal aggregate.
C5_Witness ==
    /\ adapter = "anthropic"
    /\ gpc = "done"
    /\ Len(blockArrival) >= 2
    /\ blockArrival[1] > blockArrival[2]
    /\ Len(yielded) >= 1
    /\ yielded[Len(yielded)].kind = "final"
    /\ Len(yielded[Len(yielded)].parts) >= 2

\* C8: a response whose status is outside 200-299 yields exactly one error
\* and nothing else.
C8_NonSuccessStatusYieldsOneError ==
    (httpStatus # 0 /\ (httpStatus < 200 \/ httpStatus > 299)) =>
        /\ \A i \in 1..Len(yielded) : yielded[i].kind = "error"
        /\ gpc = "done" => Len(yielded) = 1

\* C9: after an explicit error event the sequence has ended with an error:
\* the items yielded before it are the partial increments, one error follows
\* and nothing else.
C9_ErrorEventEndsSequence ==
    errorEventAt # -1 =>
        /\ AllPartial(SubSeq(yielded, 1, errorEventAt))
        /\ \A i \in (errorEventAt + 1)..Len(yielded) : yielded[i].kind = "error"
        /\ gpc = "done" => Len(yielded) = errorEventAt + 1

\* C10: after cancellation is observed during the body read nothing more is
\* yielded: no partial increment, no terminal aggregate, no error.
C10_CancelStopsSilently ==
    cancelAt # -1 => (Len(yielded) = cancelAt /\ AllPartial(yielded))


(***************************************************************************)
(* Claims about the request conversion                                     *)
(***************************************************************************)
\* The blocks of a message list, each tagged with the role of its message.
RECURSIVE TaggedBlocks(_)
TaggedBlocks(ms) ==
    IF ms = <<>> THEN <<>>
    ELSE [i \in 1..Len(Head(ms).Content) |-> <<Head(ms).Role, Head(ms).Content[i]>>]
         \o TaggedBlocks(Tail(ms))

\* The blocks of the turns, in input order, each tagged with the role its
\* turn maps to.
RECURSIVE TaggedTurnBlocks(_)
TaggedTurnBlocks(turns) ==
    IF turns = <<>> THEN <<>>
    ELSE [i \in 1..Len(ContentBlocks(Head(turns))) |->
            <<ContentRole(Head(turns)), ContentBlocks(Head(turns))[i]>>]
         \o TaggedTurnBlocks(Tail(turns))

\* C6: the message list never holds two adjacent messages of the same role
\* nor an empty message, and its blocks are the blocks of the consumed turns
\* in input order, each under the role of its turn.
C6_NoAdjacentSameRole ==
    ci >= 0 =>
        /\ \A i \in 1..(Len(msgs) - 1) : msgs[i].Role # msgs[i + 1].Role
        /\ \A i \in 1..Len(msgs) : msgs[i].Content # <<>>
        /\ TaggedBlocks(msgs) = TaggedTurnBlocks(SubSeq(contents, 1, ci))

\* Two same-role turns separated by a dropped turn were merged into one
\* message.
C6_Witness ==
    /\ ci = 3
    /\ Len(contents) = 3
    /\ ContentBlocks(contents[1]) # <<>>
    /\ ContentBlocks(contents[2]) = <<>>
    /\ ContentBlocks(contents[3]) # <<>>
    /\ ContentRole(contents[1]) = ContentRole(contents[3])
    /\ Len(msgs) = 1
    /\ Len(msgs[1].Content) = Len(ContentBlocks(contents[1])) + Len(ContentBlocks(contents[3]))

(***************************************************************************)
(* Claims about the tool-name prefixing                                    *)
(***************************************************************************)
\* C7: (tool provider, original tool name) -> prefixed name is injective:
\* two wrapped tools with the same prefixed name are the same tool of the
\* same server.
C7_PrefixedNamesInjective ==
    \A t1, t2 \in wrappedTools :
        Name(t1) = Name(t2) => (t1.server = t2.server /\ t1.inner = t2.inner)

(***************************************************************************)
(* Claims about one round of a meeting                                     *)
(***************************************************************************)
SlotMessages(seq, i) == SelectSeq(seq, LAMBDA m : m.slot = i)
MentionSet == {mentionIds[k] : k \in 1..Len(mentionIds)}

\* C11: an agent whose turn fails is retried exactly once: a failed first call
\* followed by a successful retry gives exactly one message without error
\* notice after exactly two provider calls; two failed calls give exactly one
\* error-kind message attributed to the agent, and there is never a third call.
C11_RetryOnce ==
    \A i \in DOMAIN outcomes :
        /\ Len(outcomes[i]) <= 2
        /\ Len(SlotMessages(responses, i)) <= 1
        /\ outcomes[i] = <<FALSE, TRUE>> =>
              /\ SlotMessages(responses, i) = <<ChatMessage(roundAgents[i].ID, "opinion", i)>>
              /\ rpc = "done" => SlotMessages(session, i) = SlotMessages(responses, i)
        /\ outcomes[i] = <<FALSE, FALSE>> =>
              /\ SlotMessages(responses, i) = <<ChatMessage(roundAgents[i].ID, "error", i)>>
              /\ rpc = "done" => SlotMessages(session, i) = SlotMessages(responses, i)
        /\ outcomes[i] = <<FALSE>> => SlotMessages(responses, i) = <<>>

\* C11 witness: a directed round has returned in which one agent succeeded on
\* its retry and another failed twice.
C11_Witness ==
    /\ rpc = "done"
    /\ Len(mentionIds) > 0
    /\ \E i, j \in DOMAIN outcomes : outcomes[i] = <<FALSE, TRUE>> /\ outcomes[j] = <<FALSE, FALSE>>
    /\ Len(session) = 3

C13_AbortSurfacesReason ==
    rpc = "aborted" =>
        /\ returned # <<>> \/ emitted # <<>>
        /\ roundAgents = <<>>
        /\ responses = <<>>
        /\ \A k \in 1..Len(session) : session[k].slot = 0

\* C14 as stated: in directed mode the set of agents run equals the set of
\* named agent ids.
C14_RunSetEqualsNamed ==
    (rpc = "done" /\ Len(mentionIds) > 0) =>
        {roundAgents[i].ID : i \in RoundSlots} = MentionSet

\* C14 amended: in directed mode the agents run are exactly the entries of the
\* active strategy whose id is named (named ids matching no entry are
\* skipped); each such entry has one turn, and no agent that was not named is run.
C14_DirectedRunsResolvedAgents ==
    (Len(mentionIds) > 0 /\ rpc \in {"direct", "done"}) =>
        /\ \A i \in RoundSlots : roundAgents[i].ID \in MentionSet
        /\ \A k \in 1..Len(strategyAgents) :
              strategyAgents[k].ID \in MentionSet =>
                  \E i \in RoundSlots : roundAgents[i] = strategyAgents[k]
        /\ Len(roundAgents) =
              Cardinality({k \in 1..Len(strategyAgents) : strategyAgents[k].ID \in MentionSet})
        /\ rpc = "done" =>
              \A i \in RoundSlots : /\ Len(outcomes[i]) >= 1
                                    /\ Len(SlotMessages(returned, i)) = 1

\* C14 witness: a directed round naming "risk" and an unknown id has returned
\* with the single turn of "risk", the strategy holding another agent too.
C14_Witness ==
    /\ rpc = "done"
    /\ mentionIds = <<"risk", "ghost">>
    /\ Len(strategyAgents) = 2
    /\ strategyAgents[1].ID = "macro"
    /\ strategyAgents[2].ID = "risk"
    /\ Len(roundAgents) = 1
    /\ roundAgents[1].ID = "risk"
    /\ Len(returned) = 1

(***************************************************************************)
(* Claims about the Responses stream decoder                               *)
(***************************************************************************)
SeenPos(tag) == CHOOSE k \in 1..Len(firstSeen) : firstSeen[k] = tag

\* C15: in the terminal aggregate of the Responses stream decoder the parts
\* appear in the order in which their content blocks (reply text, thought
\* text, function-call items) were first seen in the stream.
C15_PartsInFirstSeenOrder ==
    (adapter = "responses" /\ streaming /\ gpc = "done" /\ yielded # <<>>
        /\ yielded[Len(yielded)].kind = "final") =>
        LET o == yielded[Len(yielded)].order
        IN  /\ Len(o) = Len(yielded[Len(yielded)].parts)
            /\ \A i, j \in 1..Len(o) : i < j => SeenPos(o[i]) < SeenPos(o[j])

(***************************************************************************)
(* Claims about thought parts in the Anthropic request                     *)
(***************************************************************************)
\* The texts and call ids carried by parts flagged as thought, and the texts
\* of the other parts, in the turns consumed so far and in the system instruction.
AllParts ==
    UNION {{contents[k].Parts[j] : j \in 1..Len(contents[k].Parts)} : k \in 1..ci}
SystemParts ==
    IF sysInstr = <<>> THEN {} ELSE {sysInstr[1].Parts[j] : j \in 1..Len(sysInstr[1].Parts)}
ThoughtTexts == {p.Text : p \in {q \in AllParts \cup SystemParts : q.Thought}}
ThoughtCallIDs == {p.FunctionCall[1].ID : p \in {q \in AllParts : q.Thought /\ q.FunctionCall # <<>>}}
PlainSystemTexts == {p.Text : p \in {q \in SystemParts : ~q.Thought /\ q.Text # ""}}
PlainJoins ==
    {JoinTexts(q) : q \in UNION {[1..n -> PlainSystemTexts] : n \in 0..2}}

\* C16: no part flagged as thought, in any turn or in the system instruction,
\* contributes text or a content block to the request body: no block carries
\* a thought part's text or call, and the system field is a join of texts of
\* parts that are not thought.
C16_ThoughtExcluded ==
    (ci >= 0 /\ sysDone) =>
        /\ \A m \in 1..Len(msgs) : \A b \in 1..Len(msgs[m].Content) :
              /\ msgs[m].Content[b].Text \notin ThoughtTexts
              /\ msgs[m].Content[b].Type = "tool_use" => msgs[m].Content[b].ID \notin ThoughtCallIDs
        /\ arSystem \in PlainJoins

\* C16 witness: a request whose system instruction and turns hold thought
\* parts next to plain ones has been converted into a non-empty body.
C16_Witness ==
    /\ ci = Len(contents)
    /\ sysDone
    /\ ThoughtTexts # {}
    /\ ThoughtCallIDs # {}
    /\ sysInstr # <<>>
    /\ Len(sysInstr[1].Parts) = 3
    /\ arSystem # ""
    /\ Len(msgs) >= 1

(***************************************************************************)
(* Claims about ProcessRequest and call routing                            *)
(***************************************************************************)
\* C17: after any sequence of ProcessRequest calls every declaration added
\* carries the prefixed name under which its tool is registered in req.Tools,
\* every name is declared at most once, a tool is registered under its own
\* prefixed name, and a call returned under a declared name is handed to the
\* unprefixed inner tool of the server whose tool is registered under it.
C17_DeclarationsMatchRegistry ==
    /\ \A n \in DOMAIN reqTools : Name(reqTools[n]) = n /\ reqTools[n] \in wrappedTools
    /\ \A k \in 1..Len(reqDecls) :
          /\ reqDecls[k].Name \in DOMAIN reqTools
          /\ reqDecls[k].Name =
                reqTools[reqDecls[k].Name].prefix \o ":" \o reqTools[reqDecls[k].Name].inner
          /\ reqTools[reqDecls[k].Name].inner \in FunctionTools
    /\ \A k, l \in 1..Len(reqDecls) : reqDecls[k].Name = reqDecls[l].Name => k = l
    /\ lastRun # <<>> =>
          /\ lastRun[1].name \in DOMAIN reqTools
          /\ lastRun[1].server = reqTools[lastRun[1].name].server
          /\ reqTools[lastRun[1].name].prefix \o ":" \o lastRun[1].tool = lastRun[1].name

\* C17 witness: two tools with the same inner name from two differently named
\* servers are both registered and declared, and a call under the second
\* server's name was handed to that server's inner tool.
C17_Witness ==
    /\ Len(reqDecls) = 2
    /\ reqDecls[1].Name = "search:query"
    /\ reqDecls[2].Name = "news:query"
    /\ lastRun # <<>>
    /\ lastRun[1].name = "news:query"
    /\ lastRun[1].tool = "query"
    /\ lastRun[1].server = reqTools["news:query"].server
    /\ reqTools["search:query"].server # reqTools["news:query"].server

(***************************************************************************)
(* Claims about the toolsets handed out by the Manager                     *)
(***************************************************************************)
\* C18: GetToolsetsByIDs never fails as a whole: it returns exactly one
\* toolset for every distinct requested id that is loaded and whose
\* construction succeeds, whatever happens to the other requested ids, and
\* the agent is built with exactly the returned toolsets.
C18_ToolsetsForEverySuccess ==
    (lastCall # <<>> /\ lastCall[1].op = "GetToolsetsByIDs") =>
        LET requested == {lastCall[1].ids[k] : k \in 1..Len(lastCall[1].ids)}
            want == (requested \cap lastCall[1].loaded) \ lastCall[1].failing
        IN  /\ {lastResult[k].server : k \in 1..Len(lastResult)} = want
            /\ Len(lastResult) = Cardinality(want)
            /\ agent = <<[Toolsets |-> lastResult]>>

\* C18 witness: an agent asked for an unknown server and two loaded ones, the
\* construction for the first loaded one failed, and the agent was built with
\* the toolset of the other.
C18_Witness ==
    /\ lastCall # <<>>
    /\ lastCall[1].op = "GetToolsetsByIDs"
    /\ lastCall[1].ids = <<"mcp-9", "mcp-1", "mcp-2">>
    /\ lastCall[1].loaded = {"mcp-1", "mcp-2"}
    /\ lastCall[1].failing = {"mcp-1"}
    /\ Len(lastResult) = 1
    /\ lastResult[1].server = "mcp-2"
    /\ agent = <<[Toolsets |-> lastResult]>>

\* C19: toolsets are never pooled: the toolsets a call returns are pairwise
\* different, newly constructed ones, and none of them was returned by an
\* earlier call.
C19_NoPooling ==
    /\ \A k \in 1..Len(lastResult) : \A h \in handedOut : h.inst # lastResult[k].inst
    /\ \A k, l \in 1..Len(lastResult) : lastResult[k].inst = lastResult[l].inst => k = l
    /\ \A k \in 1..Len(lastResult) : lastResult[k].inst \in 1..created

\* C19 witness: GetAllToolsets returned toolsets for two servers, both of
\* which had a toolset handed out by an earlier call.
C19_Witness ==
    /\ lastCall # <<>>
    /\ lastCall[1].op = "GetAllToolsets"
    /\ Len(lastResult) = 2
    /\ \A k \in 1..2 : \E h \in handedOut : h.server = lastResult[k].server

(***************************************************************************)
(* Claims about watchlist removal                                          *)
(***************************************************************************)
\* C20: after RemoveFromWatchlist(topic) returned success the topic's
\* transcript and memory are empty and stay empty until a new query is
\* submitted for the topic, also when a meeting of the topic was running at
\* the moment of removal.
C20_RemovedStaysEmpty ==
    \A t \in Topics : removed[t] => (wlTranscript[t] = <<>> /\ wlMemory[t] = 0)

(***************************************************************************)
(* Claims about the transcript and the message events of a round           *)
(***************************************************************************)
JournalAt(op, key, msg) ==
    {k \in 1..Len(journal) : journal[k] = [op |-> op, key |-> key, msg |-> msg]}

C22_NonStreamingYieldsOneItem ==
    ~streaming =>
        /\ gpc # "done" => yielded = <<>>
        /\ gpc = "done" =>
              /\ Len(yielded) = 1
              /\ \/ yielded[1].kind = "error"
                 \/ /\ yielded[1].kind # "error"
                    /\ yielded[1].TurnComplete
                    /\ ~yielded[1].Partial

\* C22 witness: a non-streamed Anthropic call has yielded its one terminal
\* aggregate, of two parts.
C22_Witness ==
    /\ ~streaming
    /\ adapter = "anthropic"
    /\ gpc = "done"
    /\ Len(yielded) = 1
    /\ yielded[1].TurnComplete
    /\ Len(yielded[1].parts) = 2

(***************************************************************************)
(* Claims about the system-role probe                                      *)
(***************************************************************************)
\* The reply text of the body the backend sent.
SentReplyText == extractReplyText(probeSent[1].body, probeConfig.UseResponses)

\* C23: DetectSystemRoleSupport returns true exactly when the provider is
\* OpenAI-compatible and the probe completed with a status other than 200, or
\* with status 200 and a reply text without the probe token; a transport
\* failure or timeout of the probe, a reply with the token and every other
\* provider give false.
C23_DowngradeExactlyOnCompletedMismatch ==
    ppc = "done" =>
        (probeResult = <<TRUE>>
            <=> /\ probeConfig.Provider = "openai"
                /\ probeFault = "none"
                /\ probeSent # <<>>
                /\ \/ probeSent[1].status # 200
                   \/ ~Contains(SentReplyText, systemRoleProbeKeyword))

RECURSIVE FlatParts(_)
FlatParts(turns) ==
    IF turns = <<>> THEN <<>>
    ELSE (IF Head(turns).isNil THEN <<>> ELSE Head(turns).Parts) \o FlatParts(Tail(turns))

\* The blocks of the message list, in order.
RECURSIVE FlatBlocks(_)
FlatBlocks(ms) == IF ms = <<>> THEN <<>> ELSE Head(ms).Content \o FlatBlocks(Tail(ms))

\* Id and name of the tool_use blocks, tool_use_id of the tool_result blocks.
ToolUses(blks) ==
    LET b == SelectSeq(blks, LAMBDA x : x.Type = "tool_use")
    IN  [k \in 1..Len(b) |-> <<b[k].ID, b[k].Name>>]
ToolResults(blks) ==
    LET b == SelectSeq(blks, LAMBDA x : x.Type = "tool_result")
    IN  [k \in 1..Len(b) |-> b[k].ToolUseID]

\* Id and name of the function calls, id of the function results of a part list.
CallsOf(parts) ==
    LET c == SelectSeq(parts, LAMBDA x : x.FunctionCall # <<>>)
    IN  [k \in 1..Len(c) |-> <<c[k].FunctionCall[1].ID, c[k].FunctionCall[1].Name>>]
ResultsOf(parts) ==
    LET c == SelectSeq(parts, LAMBDA x : x.FunctionResponse # <<>>)
    IN  [k \in 1..Len(c) |-> c[k].FunctionResponse[1].ID]

\* A JSON string: a text in double quotes.
IsJSONString(raw) ==
    Len(raw) >= 2 /\ SubSeq(raw, 1, 1) = "\"" /\ SubSeq(raw, Len(raw), Len(raw)) = "\""

\* C27 (as stated): every function-call part of the consumed turns has become
\* exactly one tool_use block with the call's id and name, and every
\* function-result part exactly one tool_result block whose tool_use_id is
\* the result's id and whose content is a JSON string.
C27_EveryCallAndResultConverted ==
    ci >= 0 =>
        LET parts == FlatParts(SubSeq(contents, 1, ci))
            blks == FlatBlocks(msgs)
        IN  /\ ToolUses(blks) = CallsOf(parts)
            /\ ToolResults(blks) = ResultsOf(parts)
            /\ \A k \in 1..Len(blks) :
                  blks[k].Type = "tool_result" => IsJSONString(blks[k].RawContent)

\* C27 (amended): the same for the parts that are not flagged thought; a
\* part flagged thought contributes no block, whatever it carries.
C27_NonThoughtCallsAndResultsConverted ==
    ci >= 0 =>
        LET parts == SelectSeq(FlatParts(SubSeq(contents, 1, ci)), LAMBDA x : ~x.Thought)
            blks == FlatBlocks(msgs)
        IN  /\ ToolUses(blks) = CallsOf(parts)
            /\ ToolResults(blks) = ResultsOf(parts)
            /\ \A k \in 1..Len(blks) :
                  blks[k].Type = "tool_result" => IsJSONString(blks[k].RawContent)

\* C27 witness: a call, its result and a call flagged thought were consumed;
\* the request holds the tool_use of the first call and the tool_result that
\* refers to it.
C27_Witness ==
    /\ ci = 3
    /\ contents[1].Parts = <<PCall>>
    /\ contents[2].Parts = <<PResp, PText("b")>>
    /\ contents[3].Parts = <<PThoughtCall, PText("c")>>
    /\ ToolUses(FlatBlocks(msgs)) = <<<<"call_1", "f">>>>
    /\ ToolResults(FlatBlocks(msgs)) = <<"call_1">>

(***************************************************************************)
(* Claims about the token usage                                            *)
(***************************************************************************)
\* C28: the usage of an Anthropic terminal aggregate has total = input tokens
\* + output tokens; in a streamed call the input tokens are those announced
\* by message_start and the output tokens those of the last message_delta.
C28_UsageIsStartInputPlusDeltaOutput ==
    \A k \in 1..Len(yielded) :
        (adapter = "anthropic" /\ yielded[k].kind = "final" /\ yielded[k].UsageMetadata # <<>>) =>
            LET um == yielded[k].UsageMetadata[1] IN
            /\ um.TotalTokenCount = um.PromptTokenCount + um.CandidatesTokenCount
            /\ (streaming /\ usageSeen.start # -1) => um.PromptTokenCount = usageSeen.start
            /\ (streaming /\ usageSeen.delta # -1) => um.CandidatesTokenCount = usageSeen.delta

(***************************************************************************)
(* Claims about the agents of a round                                      *)
(***************************************************************************)
\* C30: an agent whose enabled flag is false never participates in a meeting
\* round: no provider call is made for it and no response carries its slot,
\* in open mode as in directed mode.
C30_DisabledAgentNeverParticipates ==
    /\ \A i \in RoundSlots : outcomes[i] # <<>> => roundAgents[i].Enabled
    /\ \A k \in 1..Len(responses) : roundAgents[responses[k].slot].Enabled

(***************************************************************************)
(* Claims about the deltas of the Anthropic stream decoder                 *)
(***************************************************************************)
Partials(y) == SelectSeq(y, LAMBDA it : it.kind = "partial")

\* The texts of the deltas addressed to the block at `index`, concatenated
\* in arrival order.
RECURSIVE DeltaText(_, _)
DeltaText(log, index) ==
    IF log = <<>> THEN ""
    ELSE (IF Head(log).index = index THEN Head(log).text ELSE "") \o DeltaText(Tail(log), index)

\* The text of the part that the block at `index` has in a terminal
\* aggregate ("" when it has none).
TerminalText(item, index) ==
    LET hits == {k \in 1..Len(item.order) : item.order[k] = index}
    IN  IF hits = {} THEN "" ELSE item.parts[CHOOSE k \in hits : TRUE].Text

\* C31: in the Anthropic stream decoder every text or thinking delta
\* addressed to a started block is yielded as exactly one partial increment,
\* in arrival order, and the terminal text of every block is the
\* concatenation of the deltas addressed to it, in arrival order.
C31_PartialsMatchTerminalText ==
    (adapter = "anthropic" /\ streaming) =>
        /\ Partials(yielded) =
              [k \in 1..Len(deltaSeen) |->
                  PartialItem(TextPart(deltaSeen[k].text, deltaSeen[k].dtype = "thinking_delta"))]
        /\ \A k \in 1..Len(yielded) :
              yielded[k].kind = "final" =>
                  \A i \in Indices : TerminalText(yielded[k], i) = DeltaText(deltaSeen, i)

(***************************************************************************)
(* Claims about a consumer that stops the sequence                         *)
(***************************************************************************)
\* C32: once the yield callback has returned false, neither stream decoder
\* invokes it again: the refused partial increment is the last item of the
\* call, no partial increment, terminal aggregate or error follows it.
C32_NothingYieldedAfterStop ==
    stopAt # -1 =>
        /\ Len(yielded) = stopAt
        /\ AllPartial(yielded)

\* C32 witness: the consumer refused the second partial increment of a
\* stream that had more to deliver, and the call has ended there.
C32_Witness ==
    /\ streaming
    /\ stopAt = 2
    /\ Len(yielded) = 2
    /\ gpc = "done"
    /\ nEvents < MaxEvents

(***************************************************************************)
(* Claims about the function-call items of the Responses stream decoder    *)
(***************************************************************************)
CallTags(tags) == SelectSeq(tags, LAMBDA t : t.kind = "call")

\* C33: in the Responses stream decoder every function-call item announced in
\* the stream (by output_item.added, by output_item.done, or by both, in any
\* order and any number of times) has exactly one function-call part in the
\* terminal aggregate, and these parts are in the order in which the items
\* were first announced.
C33_OneCallPartPerAnnouncedItem ==
    \A k \in 1..Len(yielded) :
        (adapter = "responses" /\ streaming /\ yielded[k].kind = "final") =>
            CallTags(yielded[k].order) = CallTags(firstSeen)

(***************************************************************************)
(* Claims about streaming against non-streaming conversion                 *)
(***************************************************************************)
\* C34: the terminal aggregate the stream decoder builds from the
\* well-formed event stream of an Anthropic message has the same parts in
\* the same order and the same finish reason as convertAnthropicResponse of
\* that message.
C34_StreamedEqualsConverted ==
    \A k \in 1..Len(yielded) :
        (replayMsg # <<>> /\ yielded[k].kind = "final") =>
            LET converted == convertAnthropicResponse(replayMsg[1]) IN
            /\ yielded[k].parts = converted.parts
            /\ yielded[k].FinishReason = converted.FinishReason
            /\ yielded[k].TurnComplete = converted.TurnComplete
            /\ yielded[k].Partial = converted.Partial

\* C34 witness: a message of a tool_use block followed by the text "ab" was
\* streamed with the text in two deltas, and the terminal aggregate holds the
\* call and the text, in this order.
C34_Witness ==
    /\ replayMsg # <<>>
    /\ Len(replayMsg[1].Content) = 2
    /\ replayMsg[1].Content[1].Type = "tool_use"
    /\ replayMsg[1].Content[2] = TextBlock("ab")
    /\ replayMsg[1].StopReason = "tool_use"
    /\ Len(yielded) = 3
    /\ yielded[1].kind = "partial"
    /\ yielded[2].kind = "partial"
    /\ yielded[3].kind = "final"
    /\ yielded[3].parts = <<CallPart("toolu_1", "f", "map[k:1]"), TextPart("ab", FALSE)>>

(***************************************************************************)
(* Claims about the strategy store                                         *)
(***************************************************************************)
\* C35: after any sequence of strategy and agent mutations starting from the
\* default store, the active strategy id names an existing strategy, the
\* strategy ids are pairwise distinct, and every built-in strategy is still
\* present and still flagged built-in.
C35_StoreInvariants ==
    store.Strategies # <<>> =>
        /\ StrategyIndex(store, store.ActiveID) # 0
        /\ \A i, j \in 1..Len(store.Strategies) :
              store.Strategies[i].ID = store.Strategies[j].ID => i = j
        /\ \A b \in 1..Len(builtinStrategies) :
              \E i \in 1..Len(store.Strategies) :
                  /\ store.Strategies[i].ID = builtinStrategies[b].ID
                  /\ store.Strategies[i].IsBuiltin

\* C35 witness: a second strategy is active, the built-in one was updated
\* with a value not flagged built-in, and the deletion of the active strategy
\* has just been refused.
C35_Witness ==
    /\ Len(store.Strategies) = 2
    /\ store.ActiveID = "s1"
    /\ store.Strategies[1] = Strategy("default", TRUE, <<>>)
    /\ lastMutation = <<[op |-> "DeleteStrategy", arg |-> "s1", err |-> TRUE]>>

\* C36: whenever a mutation of the strategy store returns an error (unknown
\* id, duplicate id, deletion of a built-in or of the active strategy, or a
\* failure to write the store file), the in-memory store is the same as
\* before the call.
C36_ErrorLeavesStoreUnchanged ==
    [][(lastMutation' # <<>> /\ lastMutation'[1].err) => store' = store]_vars

\* C37: after AddAgentConfig(c) or UpdateAgentConfig(c) has succeeded for an
\* enabled agent c, GetAgentConfigs returns for c.ID a configuration equal to
\* c in every field, the model-binding id (AIConfigID) included.
C37_AgentConfigRoundTrip ==
    (/\ lastMutation # <<>>
     /\ lastMutation[1].op \in {"AddAgentConfig", "UpdateAgentConfig"}
     /\ ~lastMutation[1].err
     /\ lastMutation[1].arg.Enabled) =>
        LET got == GetAgentConfigs(store)
            hits == {k \in 1..Len(got) : got[k].ID = lastMutation[1].arg.ID}
        IN  /\ hits # {}
            /\ \A k \in hits : got[k] = lastMutation[1].arg

(***************************************************************************)
(* Claims about the runtime state derived from the configuration           *)
(***************************************************************************)
\* The binding a configuration names: the default binding for an empty id.
NamedBinding(id) == IF id = "" THEN <<>> ELSE <<id>>

\* C38: after UpdateConfig(c) returned success the tool-provider manager
\* has loaded exactly the enabled servers of c (none when c lists none) and
\* the meeting service's memory and moderator bindings are the ones c names,
\* the default binding when c leaves the id empty.
C38_RuntimeAgreesWithConfig ==
    lastAppCall = "UpdateConfig:success" =>
        /\ managerConfigs = LoadedConfigs(savedConfig.MCPServers)
        /\ memoryAI = NamedBinding(savedConfig.MemoryAIConfigID)
        /\ moderatorAI = NamedBinding(savedConfig.ModeratorAIID)

\* The default the resolution is stated to prefer: the configuration whose
\* id equals DefaultAIID, else the first flagged IsDefault, else the first.
PrioritizedDefault(config) ==
    LET n == Len(config.AIConfigs)
        byID == {i \in 1..n : config.AIConfigs[i].ID = config.DefaultAIID}
        flagged == {i \in 1..n : config.AIConfigs[i].IsDefault}
    IN  IF byID # {} THEN CHOOSE i \in byID : \A j \in byID : i <= j
        ELSE IF flagged # {} THEN CHOOSE i \in flagged : \A j \in flagged : i <= j
        ELSE IF n > 0 THEN 1
        ELSE None

\* C39: getAIConfigByID(id) returns the configuration with that id when one
\* exists, otherwise the default (the configuration whose id equals
\* DefaultAIID, else the first flagged IsDefault, else the first), and nil
\* only when the configuration list is empty.
C39_ResolutionIsPrioritized ==
    resolved # <<>> =>
        LET config == savedConfig
            id == resolved[1].id
            named == {i \in 1..Len(config.AIConfigs) : config.AIConfigs[i].ID = id}
        IN  /\ resolved[1].result =
                  (IF named # {} THEN CHOOSE i \in named : \A j \in named : i <= j
                   ELSE PrioritizedDefault(config))
            /\ (resolved[1].result = None <=> config.AIConfigs = <<>>)

(***************************************************************************)
(* Claims about the settings dialog's debounced save                       *)
(***************************************************************************)
\* C40: every change handed to saveConfig is eventually included in a
\* successful updateConfig call, whatever the interleaving of saveConfig
\* calls with a doSave in flight (no call to the backend being rejected).
C40_EveryChangeIsSaved ==
    \A change \in Changes :
        (change \in handed /\ ~rpcFailed) ~> (change \in included \/ rpcFailed)

====
